---- MODULE Spec2Model ----
(***************************************************************************)
(* A model of the pegium PEG combinator library (src/pegium/grammar.hpp,   *)
(* Parser.hpp, syntax-tree.hpp).                                           *)
(*                                                                         *)
(* Bytes are the integers 0..255.  A std::string_view into the input is a  *)
(* position `pos` in the root node's fullText (the variable `text`): the   *)
(* view {sv.data()+i, sv.size()-i} of the code always ends where fullText  *)
(* ends, so `pos` determines it.  A std::size_t is represented by the      *)
(* representative of its residue class modulo 2^64 that lies next to 0:    *)
(* 2^64-1 is -1, and + on representatives is + modulo 2^64.                *)
(*                                                                         *)
(* A grammar element is a record; the address of an element object (what   *)
(* the code stores in CstNode::grammarSource and CstNode::action) is the   *)
(* pair of the rule that owns it and its path inside that rule's body.     *)
(***************************************************************************)
EXTENDS Integers, Sequences, FiniteSets, TLC

VARIABLES
  _rules,   \* Parser::_rules: name -> rule (std::map, iterated in key order)
  text,     \* the input handed to the call (RootCstNode::fullText)
  pc,       \* which call has been made: "idle", "parse", "parse_rule", "parse_terminal";
            \* "abort" when the call ended in abort(), "loop" when it never ends
  called,   \* what was called: the rule name or the element's address, and the parent before the call
  result,   \* what the call returned (and left in the parent node)
  reference, \* a Reference<T>: its members resolved, ref and mutex
  threads   \* the threads that call Reference::get(): where each is, and its locals

vars == <<_rules, text, pc, called, result, reference, threads>>

\* ------------------------------------------------------------------------
\* Bounds of the model

\* the generated inputs are the concatenations of at most MaxPieces pieces
MaxPieces == 3

\* the inputs open at most MaxDepth parentheses inside one another
MaxDepth == 2

\* ------------------------------------------------------------------------
\* std::size_t and the failure sentinel

\* numeric_limits<size_t>::max(), i.e. 2^64-1, as its representative
PARSE_ERROR == 0 - 1

success(len) == len # PARSE_ERROR

fail(len) == len = PARSE_ERROR

\* a < b on std::size_t, on representatives
SizeLess(a, b) ==
  IF (a >= 0) = (b >= 0) THEN a < b ELSE a >= 0

Bytes == 0..255

\* `auto v = ...;` followed by the statements Body that use v
Let(v, Body(_)) == Body(v)

\* ------------------------------------------------------------------------
\* character helpers

tolower(c) == IF c >= 65 /\ c <= 90 THEN c + (97 - 65) ELSE c

\* range_array_builder: the 256-entry lookup of a pattern, as the set of
\* accepted bytes.  s is the pattern without its ending '\0' (N - 1 = Len(s)).
RECURSIVE range_array_from(_, _)
range_array_from(s, i) ==
  IF i >= Len(s) THEN {}
  ELSE IF i + 2 < Len(s) /\ s[i + 2] = 45
       THEN {c \in Bytes : s[i + 1] <= c /\ c <= s[i + 3]} \cup range_array_from(s, i + 3)
       ELSE {s[i + 1]} \cup range_array_from(s, i + 1)

range_array_builder(s) == range_array_from(s, 0)

\* "a-zA-Z0-9_"
isword_lookup == range_array_builder(<<97, 45, 122, 65, 45, 90, 48, 45, 57, 95>>)

isword(c) == c \in isword_lookup

\* ------------------------------------------------------------------------
\* Grammar elements (the IElement hierarchy).  Every element is a record of
\* the same shape; `kind` names the class and the other fields are the
\* template arguments and members the class has.  `bound` is no member of
\* the code: in a RuleCall it tells what the map entry held when call(name)
\* was executed ("nullptr", or the kind of the rule).

Element(kind) ==
  [kind |-> kind, literal |-> <<>>, case_sensitive |-> TRUE, lookup |-> {},
   elements |-> <<>>, min |-> 0, max |-> 0, rule |-> "", feature |-> "", bound |-> ""]

\* operator""_kw: Literal<builder.value>, case_sensitive = true
kw(s) == [Element("Literal") EXCEPT !.literal = s]

\* operator""_cr: CharactersRanges<builder.value>
cr(s) == [Element("CharactersRanges") EXCEPT !.lookup = range_array_builder(s)]

\* Literal::toLower leaving the letters as they are
toLower_unchanged(literal) == literal

\* Literal::toLower
toLower(literal) == [i \in 1..Len(literal) |-> tolower(literal[i])]

\* Literal::i(): Literal<toLower(), false>
Literal_i(e) == [e EXCEPT !.literal = toLower(e.literal), !.case_sensitive = FALSE]

\* Literal::isCaseSensitive
isCaseSensitive(e) ==
  IF ~e.case_sensitive
  THEN \A k \in 1..Len(e.literal) :
         ~((e.literal[k] >= 97 /\ e.literal[k] <= 122) \/ (e.literal[k] >= 65 /\ e.literal[k] <= 90))
  ELSE e.case_sensitive

\* CharactersRanges::toNegated / operator!
cr_not(e) == [e EXCEPT !.lookup = Bytes \ e.lookup]

\* CharactersRanges::toInsensitive / i()
cr_i(e) ==
  [e EXCEPT !.lookup = e.lookup
        \cup {c \in 97..122 : (c - 97 + 65) \in e.lookup}
        \cup {c \in 65..90 : (c - 65 + 97) \in e.lookup}]

Group(elems) == [Element("Group") EXCEPT !.elements = elems]

UnorderedGroup(elems) == [Element("UnorderedGroup") EXCEPT !.elements = elems]

OrderedChoice(elems) == [Element("OrderedChoice") EXCEPT !.elements = elems]

Repetition(min, max, element) ==
  [Element("Repetition") EXCEPT !.min = min, !.max = max, !.elements = <<element>>]

AndPredicate(element) == [Element("AndPredicate") EXCEPT !.elements = <<element>>]

NotPredicate(element) == [Element("NotPredicate") EXCEPT !.elements = <<element>>]

AnyCharacter == Element("AnyCharacter")

\* Parser::call(name): a RuleCall bound to the map entry _rules[name]
call(name) == [Element("RuleCall") EXCEPT !.rule = name]

\* what `rule(name) = element` returns: a RuleWrapper on the rule
RuleWrapper(name) == [Element("RuleWrapper") EXCEPT !.rule = name]

\* assign<feature>(element) / append<feature>(element)
Assignment(feature, element) ==
  [Element("Assignment") EXCEPT !.feature = feature, !.elements = <<element>>]

\* operator+ on two elements: the four overloads flatten Groups
Plus(lhs, rhs) ==
  Group((IF lhs.kind = "Group" THEN lhs.elements ELSE <<lhs>>)
        \o (IF rhs.kind = "Group" THEN rhs.elements ELSE <<rhs>>))

\* operator& on two elements: the four overloads flatten UnorderedGroups
Amp(lhs, rhs) ==
  UnorderedGroup((IF lhs.kind = "UnorderedGroup" THEN lhs.elements ELSE <<lhs>>)
                 \o (IF rhs.kind = "UnorderedGroup" THEN rhs.elements ELSE <<rhs>>))

\* operator| on two elements: the four overloads flatten OrderedChoices
Bar(lhs, rhs) ==
  OrderedChoice((IF lhs.kind = "OrderedChoice" THEN lhs.elements ELSE <<lhs>>)
                \o (IF rhs.kind = "OrderedChoice" THEN rhs.elements ELSE <<rhs>>))

opt(element) == Repetition(0, 1, element)

many(element) == Repetition(0, PARSE_ERROR, element)

at_least_one(element) == Repetition(1, PARSE_ERROR, element)

\* at_least_one_sep that also takes a separator after the last element
at_least_one_sep_trailing(sep, element) ==
  Plus(Plus(element, many(Plus(sep, element))), opt(sep))

at_least_one_sep(sep, element) == Plus(element, many(Plus(sep, element)))

many_sep(sep, element) == opt(at_least_one_sep(sep, element))

rep(min, max, element) == Repetition(min, max, element)

dot == AnyCharacter

eof == NotPredicate(dot)

\* " \t\r\n\f\v"_cr
s == cr(<<32, 9, 13, 10, 12, 11>>)

w == cr(<<97, 45, 122, 65, 45, 90, 48, 45, 57, 95>>)

\* operator>> with the lookahead turned round: from + *(&to + dot) + to
Until_while(from, to) == Plus(Plus(from, many(Plus(AndPredicate(to), dot))), to)

\* operator>>: from + *(!to + dot) + to
Until(from, to) == Plus(Plus(from, many(Plus(NotPredicate(to), dot))), to)

\* ------------------------------------------------------------------------
\* The input

\* sv.size() of the view that starts at pos
Size(pos) == Len(text) - pos

\* sv[i] of the view that starts at pos.  fullText is a std::string, so the
\* byte at its end, which Literal::parse_rule reads when a match ends the
\* input, is the string's terminating '\0'.
At(pos, i) == IF pos + i < Len(text) THEN text[pos + i + 1] ELSE 0

\* ------------------------------------------------------------------------
\* Terminal mode: IElement::parse_terminal(sv), sv the view at pos

RECURSIVE parse_terminal(_, _)

Literal_parse_terminal(e, pos) ==
  IF Len(e.literal) > Size(pos) THEN PARSE_ERROR
  ELSE IF \A i \in 0..(Len(e.literal) - 1) :
            (IF isCaseSensitive(e) THEN At(pos, i) ELSE tolower(At(pos, i))) = e.literal[i + 1]
       THEN Len(e.literal)
       ELSE PARSE_ERROR

CharactersRanges_parse_terminal(e, pos) ==
  IF Size(pos) # 0 /\ At(pos, 0) \in e.lookup THEN 1 ELSE PARSE_ERROR

\* AnyCharacter::codepoint_length that looks at the bytes after the lead byte
codepoint_length_validated(pos) ==
  IF Size(pos) # 0
  THEN LET b == At(pos, 0)
           continuation(p, i) == i < Size(p) /\ At(p, i) \div 64 = 2 IN
       IF b < 128 THEN 1
       ELSE IF b \div 32 = 6 /\ continuation(pos, 1) THEN 2
       ELSE IF b \div 16 = 14 /\ continuation(pos, 1) /\ continuation(pos, 2) THEN 3
       ELSE IF b \div 8 = 30 /\ continuation(pos, 1) /\ continuation(pos, 2)
                 /\ continuation(pos, 3) THEN 4
       ELSE PARSE_ERROR
  ELSE PARSE_ERROR

\* AnyCharacter::codepoint_length; b & 0x80 == 0 etc. on the lead byte
codepoint_length(pos) ==
  IF Size(pos) # 0
  THEN LET b == At(pos, 0) IN
       IF b < 128 THEN 1
       ELSE IF b \div 32 = 6 /\ Size(pos) >= 2 THEN 2
       ELSE IF b \div 16 = 14 /\ Size(pos) >= 3 THEN 3
       ELSE IF b \div 8 = 30 /\ Size(pos) >= 4 THEN 4
       ELSE PARSE_ERROR
  ELSE PARSE_ERROR

\* Group::parse_terminal: the fold (parse_terminal_element(...) && ...) from
\* element k on, i the length matched so far
RECURSIVE Group_parse_terminal_from(_, _, _, _)
Group_parse_terminal_from(e, pos, k, i) ==
  IF k > Len(e.elements) THEN i
  ELSE LET len == parse_terminal(e.elements[k], pos + i) IN
       IF fail(len) THEN len
       ELSE Group_parse_terminal_from(e, pos, k + 1, i + len)

Group_parse_terminal(e, pos) == Group_parse_terminal_from(e, pos, 1, 0)

\* UnorderedGroup::parse_terminal: one pass of the fold
\* (parse_terminal_element(...) || ...) from element k on; returns the index
\* of the element that matched (0 when none did) and the new i
RECURSIVE UnorderedGroup_terminal_pass(_, _, _, _, _)
UnorderedGroup_terminal_pass(e, pos, k, i, processed) ==
  IF k > Len(e.elements) THEN [index |-> 0, i |-> i]
  ELSE IF processed[k] THEN UnorderedGroup_terminal_pass(e, pos, k + 1, i, processed)
  ELSE LET len == parse_terminal(e.elements[k], pos + i) IN
       IF success(len) THEN [index |-> k, i |-> i + len]
       ELSE UnorderedGroup_terminal_pass(e, pos, k + 1, i, processed)

\* the while loop of UnorderedGroup::parse_terminal
RECURSIVE UnorderedGroup_terminal_loop(_, _, _, _)
UnorderedGroup_terminal_loop(e, pos, i, processed) ==
  IF \A k \in 1..Len(e.elements) : processed[k] THEN i
  ELSE LET p == UnorderedGroup_terminal_pass(e, pos, 1, i, processed) IN
       IF p.index = 0 THEN PARSE_ERROR
       ELSE UnorderedGroup_terminal_loop(e, pos, p.i, [processed EXCEPT ![p.index] = TRUE])

UnorderedGroup_parse_terminal(e, pos) ==
  UnorderedGroup_terminal_loop(e, pos, 0, [k \in 1..Len(e.elements) |-> FALSE])

\* OrderedChoice::parse_terminal: the fold (parse_terminal_element(...) || ...)
RECURSIVE OrderedChoice_parse_terminal_from(_, _, _, _)
OrderedChoice_parse_terminal_from(e, pos, k, i) ==
  IF k > Len(e.elements) THEN i
  ELSE LET len == parse_terminal(e.elements[k], pos) IN
       IF success(len) THEN len
       ELSE OrderedChoice_parse_terminal_from(e, pos, k + 1, len)

OrderedChoice_parse_terminal(e, pos) ==
  OrderedChoice_parse_terminal_from(e, pos, 1, PARSE_ERROR)

\* Repetition::parse_terminal: the two while loops, count iterations done
RECURSIVE Repetition_parse_terminal_from(_, _, _, _)
Repetition_parse_terminal_from(e, pos, count, i) ==
  IF SizeLess(count, e.min)
  THEN LET len == parse_terminal(e.elements[1], pos + i) IN
       IF fail(len) THEN len
       ELSE Repetition_parse_terminal_from(e, pos, count + 1, i + len)
  ELSE IF SizeLess(count, e.max)
  THEN LET len == parse_terminal(e.elements[1], pos + i) IN
       IF fail(len) THEN i
       ELSE Repetition_parse_terminal_from(e, pos, count + 1, i + len)
  ELSE i

\* Repetition::parse_terminal with the optional loop running while count <= max
RECURSIVE Repetition_parse_terminal_one_more_from(_, _, _, _)
Repetition_parse_terminal_one_more_from(e, pos, count, i) ==
  IF SizeLess(count, e.min)
  THEN LET len == parse_terminal(e.elements[1], pos + i) IN
       IF fail(len) THEN len
       ELSE Repetition_parse_terminal_one_more_from(e, pos, count + 1, i + len)
  ELSE IF SizeLess(count, e.max) \/ count = e.max
  THEN LET len == parse_terminal(e.elements[1], pos + i) IN
       IF fail(len) THEN i
       ELSE Repetition_parse_terminal_one_more_from(e, pos, count + 1, i + len)
  ELSE i

Repetition_parse_terminal_one_more(e, pos) ==
  Repetition_parse_terminal_one_more_from(e, pos, 0, 0)

Repetition_parse_terminal(e, pos) == Repetition_parse_terminal_from(e, pos, 0, 0)

AndPredicate_parse_terminal(e, pos) ==
  IF success(parse_terminal(e.elements[1], pos)) THEN 0 ELSE PARSE_ERROR

NotPredicate_parse_terminal(e, pos) ==
  IF success(parse_terminal(e.elements[1], pos)) THEN PARSE_ERROR ELSE 0

\* RuleCall / RuleWrapper::parse_terminal, and the three rules' parse_terminal:
\* _rule->parse_terminal(sv) is _element->parse_terminal(sv)
Rule_parse_terminal(name, pos) == parse_terminal(_rules[name]._element, pos)

parse_terminal(e, pos) ==
  CASE e.kind = "Literal" -> Literal_parse_terminal(e, pos)
    [] e.kind = "CharactersRanges" -> CharactersRanges_parse_terminal(e, pos)
    [] e.kind = "AnyCharacter" -> codepoint_length(pos)
    [] e.kind = "Group" -> Group_parse_terminal(e, pos)
    [] e.kind = "UnorderedGroup" -> UnorderedGroup_parse_terminal(e, pos)
    [] e.kind = "OrderedChoice" -> OrderedChoice_parse_terminal(e, pos)
    [] e.kind = "Repetition" -> Repetition_parse_terminal(e, pos)
    [] e.kind = "AndPredicate" -> AndPredicate_parse_terminal(e, pos)
    [] e.kind = "NotPredicate" -> NotPredicate_parse_terminal(e, pos)
    [] e.kind \in {"RuleCall", "RuleWrapper"} -> Rule_parse_terminal(e.rule, pos)
    \* Assignment::parse_terminal
    [] e.kind = "Assignment" -> PARSE_ERROR

\* ------------------------------------------------------------------------
\* CST nodes and the state a rule-mode match works on

\* the address of the element at `path` in the body of rule `rule`
Source(rule, path) == [rule |-> rule, path |-> path]

\* the address of the rule object itself (IRule is an IElement)
RuleSource(name) == Source(name, <<0>>)

\* the address of the k-th member of the element at src
Member(src, k) == [src EXCEPT !.path = Append(@, k)]

\* a null grammarSource / action pointer
NullSource == Source("", <<>>)

\* A CstNode.  text is the string_view as offset and length in fullText.
\* id is not a field of the code's node: it numbers the nodes in the order
\* in which they are created, so that a node can be recognised later.
CstNode(id, off, len, content, grammarSource, isLeaf, hidden) ==
  [text |-> [off |-> off, len |-> len], content |-> content,
   grammarSource |-> grammarSource, action |-> NullSource,
   isLeaf |-> isLeaf, hidden |-> hidden, id |-> id]

\* The state of a match: the parent's child list (parent.content) and, for
\* the record only, nid (the next node number), dead (the numbers of the
\* nodes created during a parse_rule call that returned PARSE_ERROR) and log
\* (every parse_rule call on an element, in order of return) and failed (the
\* assert() expressions that were false when they were reached).
State(content, nid, dead, log, failed) ==
  [content |-> content, nid |-> nid, dead |-> dead, log |-> log, failed |-> failed]

\* what a rule-mode call returns: the length, and the state it leaves
Return(len, st) ==
  [len |-> len, content |-> st.content, nid |-> st.nid, dead |-> st.dead, log |-> st.log,
   failed |-> st.failed]

StateOf(r) == State(r.content, r.nid, r.dead, r.log, r.failed)

\* assert(expression): a build without NDEBUG aborts when the expression is
\* false, a build with NDEBUG does not evaluate it
assert(st, expression, text_of_expression) ==
  IF expression THEN st ELSE [st EXCEPT !.failed = @ \cup {text_of_expression}]

\* parent.content.emplace_back() of a leaf node, with its fields set
emplace_leaf(st, src, off, len, hidden) ==
  [st EXCEPT !.content = Append(@, CstNode(st.nid, off, len, <<>>, src, TRUE, hidden)),
             !.nid = @ + 1]

\* parent.content.resize(size)
resize(st, size) == [st EXCEPT !.content = SubSeq(@, 1, size)]

\* the record's part of a call on the element at src that returned r
Recorded(st, src, pos, r) ==
  [r EXCEPT !.dead = IF fail(r.len) THEN @ \cup (st.nid..(r.nid - 1)) ELSE @,
            !.log = Append(@, [src |-> src, pos |-> pos, len |-> r.len])]

\* ------------------------------------------------------------------------
\* Rules and the parsing context

\* TerminalRule::hidden / TerminalRule::ignored
hidden(rule) == rule._kind # "Normal"

ignored(rule) == rule._kind = "Ignored"

\* The keys of the model's parsers in the order std::map<std::string,
\* std::less<>> iterates them (lexicographic on bytes).
MapOrder ==
  <<"Array", "COMMENT", "HASH", "ID", "Node", "RULE", "SL_COMMENT", "TERM", "Value", "WS">>

IsHiddenTerminal(name) ==
  /\ name \in DOMAIN _rules
  /\ _rules[name].kind = "TerminalRule"
  /\ hidden(_rules[name])

\* the text of the assert of Context::skipHiddenNodes
ZeroLengthHidden == "len && \"An hidden terminal rule must consume at least one character.\""

\* Parser::createContext: Context::_hiddens, the hidden terminals in map order
createContext == SelectSeq(MapOrder, IsHiddenTerminal)

\* Context::skipHiddenNodes: one run of the for loop over _hiddens from the
\* k-th rule on; i bytes skipped so far
RECURSIVE skipHiddenNodes_for(_, _, _, _, _)
skipHiddenNodes_for(pos, k, i, matched, st) ==
  IF k > Len(createContext) THEN [i |-> i, matched |-> matched, st |-> st]
  ELSE Let(Rule_parse_terminal(createContext[k], pos + i), LAMBDA len :
         IF success(len)
         THEN skipHiddenNodes_for(pos, k + 1, i + len, TRUE,
                IF ~ignored(_rules[createContext[k]])
                THEN emplace_leaf(assert(st, len # 0, ZeroLengthHidden),
                                  RuleSource(createContext[k]), pos + i, len, TRUE)
                ELSE assert(st, len # 0, ZeroLengthHidden))
         ELSE skipHiddenNodes_for(pos, k + 1, i, matched, st))

\* the while (true) loop of skipHiddenNodes.  A pass that matched and did not
\* advance i (its matches were of length 0, the assert was false) is followed
\* by the same pass for ever: the loop is cut there, and Returns lets no call
\* with that assert in `failed` return.
RECURSIVE skipHiddenNodes_while(_, _, _)
skipHiddenNodes_while(pos, i, st) ==
  Let(skipHiddenNodes_for(pos, 1, i, FALSE, st), LAMBDA p :
    IF ~p.matched \/ p.i = i THEN Return(p.i, p.st)
    ELSE skipHiddenNodes_while(pos, p.i, p.st))

skipHiddenNodes(pos, st) == skipHiddenNodes_while(pos, 0, st)

\* the hidden tokens after a token skipped, their length not counted
skip_after_uncounted(pos, i, st) ==
  Let(skipHiddenNodes(pos + i, st), LAMBDA h : Return(i, StateOf(h)))

\* `return i + c.skipHiddenNodes({sv.data() + i, sv.size() - i}, parent)`
\* after a token of i bytes at pos
skip_after(pos, i, st) ==
  Let(skipHiddenNodes(pos + i, st), LAMBDA h : Return(i + h.len, StateOf(h)))

\* ------------------------------------------------------------------------
\* Rule mode: IElement::parse_rule(sv, parent, c), sv the view at pos, the
\* parent's child list in st, the element's address in src

RECURSIVE parse_rule(_, _, _, _)

RECURSIVE Rule_parse_rule(_, _, _)

\* Literal::parse_rule without the test of the byte that follows the match
Literal_parse_rule_any_follower(e, src, pos, st) ==
  Let(Literal_parse_terminal(e, pos), LAMBDA i :
    IF fail(i)
    THEN Return(PARSE_ERROR, st)
    ELSE skip_after(pos, i, emplace_leaf(st, src, pos, i, FALSE)))

Literal_parse_rule(e, src, pos, st) ==
  Let(Literal_parse_terminal(e, pos), LAMBDA i :
    IF fail(i) \/ (isword(e.literal[Len(e.literal)]) /\ isword(At(pos, i)))
    THEN Return(PARSE_ERROR, st)
    ELSE skip_after(pos, i, emplace_leaf(st, src, pos, i, FALSE)))

CharactersRanges_parse_rule(e, src, pos, st) ==
  Let(CharactersRanges_parse_terminal(e, pos), LAMBDA i :
    IF fail(i) \/ (Size(pos) > i /\ isword(At(pos, i - 1)) /\ isword(At(pos, i)))
    THEN Return(PARSE_ERROR, st)
    ELSE skip_after(pos, i, emplace_leaf(st, src, pos, i, FALSE)))

AnyCharacter_parse_rule(e, src, pos, st) ==
  Let(codepoint_length(pos), LAMBDA i :
    IF fail(i) THEN Return(PARSE_ERROR, st)
    ELSE skip_after(pos, i, emplace_leaf(st, src, pos, i, FALSE)))

\* Group::parse_rule: the fold (parse_rule_element(...) && ...) from element
\* k on; size is parent.content.size() at the start of the group
RECURSIVE Group_parse_rule_from(_, _, _, _, _, _, _)
Group_parse_rule_from(e, src, pos, k, size, i, st) ==
  IF k > Len(e.elements) THEN Return(i, st)
  ELSE LET r == parse_rule(e.elements[k], Member(src, k), pos + i, st) IN
       IF fail(r.len) THEN Return(r.len, resize(StateOf(r), size))
       ELSE Group_parse_rule_from(e, src, pos, k + 1, size, i + r.len, StateOf(r))

Group_parse_rule(e, src, pos, st) ==
  Group_parse_rule_from(e, src, pos, 1, Len(st.content), 0, st)

\* a pass that matches the processed members again and drops what they matched
RECURSIVE UnorderedGroup_rule_pass_again(_, _, _, _, _, _, _)
UnorderedGroup_rule_pass_again(e, src, pos, k, i, processed, st) ==
  IF k > Len(e.elements) THEN [index |-> 0, i |-> i, st |-> st]
  ELSE LET r == parse_rule(e.elements[k], Member(src, k), pos + i, st) IN
       IF success(r.len) /\ ~processed[k]
       THEN [index |-> k, i |-> i + r.len, st |-> StateOf(r)]
       ELSE UnorderedGroup_rule_pass_again(e, src, pos, k + 1, i, processed,
                                           [StateOf(r) EXCEPT !.content = st.content])

\* UnorderedGroup::parse_rule: one pass of the fold
\* (parse_rule_element(...) || ...) from element k on
RECURSIVE UnorderedGroup_rule_pass(_, _, _, _, _, _, _)
UnorderedGroup_rule_pass(e, src, pos, k, i, processed, st) ==
  IF k > Len(e.elements) THEN [index |-> 0, i |-> i, st |-> st]
  ELSE IF processed[k] THEN UnorderedGroup_rule_pass(e, src, pos, k + 1, i, processed, st)
  ELSE LET r == parse_rule(e.elements[k], Member(src, k), pos + i, st) IN
       IF success(r.len) THEN [index |-> k, i |-> i + r.len, st |-> StateOf(r)]
       ELSE UnorderedGroup_rule_pass(e, src, pos, k + 1, i, processed, StateOf(r))

\* the while loop of UnorderedGroup::parse_rule and the return after it
RECURSIVE UnorderedGroup_rule_loop(_, _, _, _, _, _)
UnorderedGroup_rule_loop(e, src, pos, i, processed, st) ==
  IF \A k \in 1..Len(e.elements) : processed[k] THEN Return(i, st)
  ELSE LET p == UnorderedGroup_rule_pass(e, src, pos, 1, i, processed, st) IN
       IF p.index = 0 THEN Return(PARSE_ERROR, p.st)
       ELSE UnorderedGroup_rule_loop(e, src, pos, p.i,
                                     [processed EXCEPT ![p.index] = TRUE], p.st)

\* UnorderedGroup::parse_rule returning what was consumed when a pass matches
\* no member, whether or not every member was matched
RECURSIVE UnorderedGroup_rule_loop_partial(_, _, _, _, _, _)
UnorderedGroup_rule_loop_partial(e, src, pos, i, processed, st) ==
  IF \A k \in 1..Len(e.elements) : processed[k] THEN Return(i, st)
  ELSE LET p == UnorderedGroup_rule_pass(e, src, pos, 1, i, processed, st) IN
       IF p.index = 0 THEN Return(i, p.st)
       ELSE UnorderedGroup_rule_loop_partial(e, src, pos, p.i,
                                             [processed EXCEPT ![p.index] = TRUE], p.st)

UnorderedGroup_parse_rule_partial(e, src, pos, st) ==
  UnorderedGroup_rule_loop_partial(e, src, pos, 0, [k \in 1..Len(e.elements) |-> FALSE], st)

UnorderedGroup_parse_rule(e, src, pos, st) ==
  UnorderedGroup_rule_loop(e, src, pos, 0, [k \in 1..Len(e.elements) |-> FALSE], st)

\* OrderedChoice::parse_rule: the fold (parse_rule_element(...) || ...)
RECURSIVE OrderedChoice_parse_rule_from(_, _, _, _, _, _, _)
OrderedChoice_parse_rule_from(e, src, pos, k, size, i, st) ==
  IF k > Len(e.elements) THEN Return(i, st)
  ELSE LET r == parse_rule(e.elements[k], Member(src, k), pos, st) IN
       IF success(r.len) THEN r
       ELSE OrderedChoice_parse_rule_from(e, src, pos, k + 1, size, r.len,
                                          resize(StateOf(r), size))

\* OrderedChoice::parse_rule with a fold that does not short-circuit: every
\* alternative is evaluated, the first success gives the length
RECURSIVE OrderedChoice_parse_rule_all_from(_, _, _, _, _, _, _)
OrderedChoice_parse_rule_all_from(e, src, pos, k, size, i, st) ==
  IF k > Len(e.elements) THEN Return(i, st)
  ELSE LET r == parse_rule(e.elements[k], Member(src, k), pos, st) IN
       IF success(r.len)
       THEN OrderedChoice_parse_rule_all_from(e, src, pos, k + 1, Len(r.content),
                                              IF success(i) THEN i ELSE r.len, StateOf(r))
       ELSE OrderedChoice_parse_rule_all_from(e, src, pos, k + 1, size, i,
                                              resize(StateOf(r), size))

OrderedChoice_parse_rule_all(e, src, pos, st) ==
  OrderedChoice_parse_rule_all_from(e, src, pos, 1, Len(st.content), PARSE_ERROR, st)

OrderedChoice_parse_rule(e, src, pos, st) ==
  OrderedChoice_parse_rule_from(e, src, pos, 1, Len(st.content), PARSE_ERROR, st)

\* Repetition::parse_rule: the two while loops; size is the snapshot of
\* parent.content.size() (taken once for the mandatory loop, at each
\* iteration of the optional one)
RECURSIVE Repetition_parse_rule_from(_, _, _, _, _, _, _)
Repetition_parse_rule_from(e, src, pos, count, size, i, st) ==
  IF SizeLess(count, e.min)
  THEN LET r == parse_rule(e.elements[1], Member(src, 1), pos + i, st) IN
       IF fail(r.len) THEN Return(r.len, resize(StateOf(r), size))
       ELSE Repetition_parse_rule_from(e, src, pos, count + 1, size, i + r.len, StateOf(r))
  ELSE IF SizeLess(count, e.max)
  THEN LET r == parse_rule(e.elements[1], Member(src, 1), pos + i, st) IN
       IF fail(r.len) THEN Return(i, resize(StateOf(r), Len(st.content)))
       ELSE Repetition_parse_rule_from(e, src, pos, count + 1, size, i + r.len, StateOf(r))
  ELSE Return(i, st)

Repetition_parse_rule(e, src, pos, st) ==
  Repetition_parse_rule_from(e, src, pos, 0, Len(st.content), 0, st)

\* AndPredicate::parse_rule: the element matches into a local CstNode
AndPredicate_parse_rule(e, src, pos, st) ==
  LET r == parse_rule(e.elements[1], Member(src, 1), pos, [st EXCEPT !.content = <<>>]) IN
  Return(IF success(r.len) THEN 0 ELSE PARSE_ERROR, [StateOf(r) EXCEPT !.content = st.content])

\* NotPredicate::parse_rule
NotPredicate_parse_rule(e, src, pos, st) ==
  LET r == parse_rule(e.elements[1], Member(src, 1), pos, [st EXCEPT !.content = <<>>]) IN
  Return(IF success(r.len) THEN PARSE_ERROR ELSE 0, [StateOf(r) EXCEPT !.content = st.content])

\* Assignment::parse_rule writing the action into the last child
Assignment_parse_rule_back(e, src, pos, st) ==
  LET r == parse_rule(e.elements[1], Member(src, 1), pos, st)
  IN IF success(r.len) /\ Len(r.content) > 0
     THEN [r EXCEPT !.content[Len(r.content)].action = src]
     ELSE r

\* Assignment::parse_rule: index is parent.content.size() before the match
Assignment_parse_rule(e, src, pos, st) ==
  LET index == Len(st.content)
      r == parse_rule(e.elements[1], Member(src, 1), pos, st)
  IN IF success(r.len) /\ Len(r.content) > index
     THEN [r EXCEPT !.content[index + 1].action = src]
     ELSE r

\* RuleWrapper::parse_rule: _rule is a reference to the rule
RuleWrapper_parse_rule(e, src, pos, st) == Rule_parse_rule(e.rule, pos, st)

\* a RuleCall that holds the shared_ptr the map entry held when call(name) was executed
RuleCall_parse_rule_of_copy(e, src, pos, st) ==
  IF e.bound = "nullptr"
  THEN Return(PARSE_ERROR, assert(st, FALSE, "_rule && \"Call of an undefined rule.\""))
  ELSE Rule_parse_rule(e.rule, pos, st)

\* RuleCall::parse_rule: _rule is a reference to the entry of the map, read
\* when the call is parsed
RuleCall_parse_rule(e, src, pos, st) ==
  Rule_parse_rule(e.rule, pos, assert(st, _rules[e.rule].kind # "nullptr",
                                      "_rule && \"Call of an undefined rule.\""))

parse_rule(e, src, pos, st) ==
  Recorded(st, src, pos,
    CASE e.kind = "Literal" -> Literal_parse_rule(e, src, pos, st)
      [] e.kind = "CharactersRanges" -> CharactersRanges_parse_rule(e, src, pos, st)
      [] e.kind = "AnyCharacter" -> AnyCharacter_parse_rule(e, src, pos, st)
      [] e.kind = "Group" -> Group_parse_rule(e, src, pos, st)
      [] e.kind = "UnorderedGroup" -> UnorderedGroup_parse_rule(e, src, pos, st)
      [] e.kind = "OrderedChoice" -> OrderedChoice_parse_rule(e, src, pos, st)
      [] e.kind = "Repetition" -> Repetition_parse_rule(e, src, pos, st)
      [] e.kind = "AndPredicate" -> AndPredicate_parse_rule(e, src, pos, st)
      [] e.kind = "NotPredicate" -> NotPredicate_parse_rule(e, src, pos, st)
      [] e.kind = "Assignment" -> Assignment_parse_rule(e, src, pos, st)
      [] e.kind = "RuleCall" -> RuleCall_parse_rule(e, src, pos, st)
      [] e.kind = "RuleWrapper" -> RuleWrapper_parse_rule(e, src, pos, st))

\* ParserRule::parse_rule and DataTypeRule::parse_rule (the same code): the
\* rule's node is emplaced first, the body matches into it
ParserRule_parse_rule(name, pos, st) ==
  Let(parse_rule(_rules[name]._element, Source(name, <<>>), pos,
                 [st EXCEPT !.content = <<>>, !.nid = @ + 1]), LAMBDA r :
    IF fail(r.len)
    THEN Return(PARSE_ERROR,
                [StateOf(r) EXCEPT !.content = SubSeq(st.content, 1, Len(st.content))])
    ELSE Return(r.len,
           [StateOf(r) EXCEPT !.content =
              Append(st.content,
                     CstNode(st.nid, pos, r.len, r.content, RuleSource(name), FALSE, FALSE))]))

DataTypeRule_parse_rule(name, pos, st) == ParserRule_parse_rule(name, pos, st)

\* TerminalRule::parse_rule
TerminalRule_parse_rule(name, pos, st) ==
  Let(parse_terminal(_rules[name]._element, pos), LAMBDA i :
    IF fail(i) THEN Return(PARSE_ERROR, st)
    ELSE skip_after(pos, i,
           emplace_leaf(assert(st, _rules[name]._kind # "Ignored",
                               "_kind != TerminalRule::Kind::Ignored"),
                        RuleSource(name), pos, i, _rules[name]._kind = "Hidden")))

\* the virtual call _rule->parse_rule(sv, parent, c)
Rule_parse_rule(name, pos, st) ==
  Recorded(st, RuleSource(name), pos,
    CASE _rules[name].kind = "ParserRule" -> ParserRule_parse_rule(name, pos, st)
      [] _rules[name].kind = "DataTypeRule" -> DataTypeRule_parse_rule(name, pos, st)
      [] _rules[name].kind = "TerminalRule" -> TerminalRule_parse_rule(name, pos, st))

\* ------------------------------------------------------------------------
\* The rules' parse(text, c) and the value converters

\* + on std::size_t, on representatives
SizeAdd_checked(a, b) == IF fail(a) \/ fail(b) THEN PARSE_ERROR ELSE a + b

SizeAdd(a, b) == a + b

\* the bytes of a node's text
TextOf(node) == SubSeq(text, node.text.off + 1, node.text.off + node.text.len)

\* The converter Parser::rule(name) installs: `for (auto &n : node)` visits
\* the node and then its descendants in pre-order (CstNode::IteratorTemplate)
\* and appends the text of every non-hidden leaf.
RECURSIVE leaves_text(_)

RECURSIVE leaves_text_from(_, _)
leaves_text_from(content, k) ==
  IF k > Len(content) THEN <<>>
  ELSE leaves_text(content[k]) \o leaves_text_from(content, k + 1)

leaves_text(node) ==
  (IF node.isLeaf /\ ~node.hidden THEN TextOf(node) ELSE <<>>)
    \o leaves_text_from(node.content, 1)

\* The converter Parser::terminal(name) installs: std::string{node.text}
node_text(node) == TextOf(node)

\* a std::any holding a std::string, or holding nothing
AnyString(str) == [has_value |-> TRUE, str |-> str]

NoValue == [has_value |-> FALSE, str |-> <<>>]

\* rule._value_converter(node)
value_converter(rule, node) ==
  CASE rule._value_converter = "leaves" -> AnyString(leaves_text(node))
    [] rule._value_converter = "text" -> AnyString(node_text(node))
    [] OTHER -> NoValue

\* the RootCstNode a parse creates: text = fullText, grammarSource = this
RootCstNode(name, content, isLeaf) ==
  CstNode(0, 0, Len(text), content, RuleSource(name), isLeaf, FALSE)

ParseResult(root_node, len, ret, value, r) ==
  [root_node |-> root_node, len |-> len, ret |-> ret, value |-> value,
   nid |-> r.nid, dead |-> r.dead, log |-> r.log, failed |-> r.failed]

\* the state of a match whose parent has the children `content`, nothing recorded yet
Fresh(content) == State(content, 1, {}, <<>>, {})

\* ParserRule::parse with ret telling that the rule matched, not that it matched everything
ParserRule_parse_ret_matched(name) ==
  Let(skipHiddenNodes(0, Fresh(<<>>)), LAMBDA h :
    Let(Rule_parse_rule(name, h.len, StateOf(h)), LAMBDA r :
      ParseResult(RootCstNode(name, r.content, FALSE), SizeAdd(h.len, r.len),
                  success(r.len), NoValue, r)))

\* ParserRule::parse
ParserRule_parse(name) ==
  Let(skipHiddenNodes(0, Fresh(<<>>)), LAMBDA h :
    Let(Rule_parse_rule(name, h.len, StateOf(h)), LAMBDA r :
      ParseResult(RootCstNode(name, r.content, FALSE), SizeAdd(h.len, r.len),
                  SizeAdd(h.len, r.len) = Size(0), NoValue, r)))

\* DataTypeRule::parse
DataTypeRule_parse(name) ==
  Let(skipHiddenNodes(0, Fresh(<<>>)), LAMBDA h :
    Let(Rule_parse_rule(name, h.len, StateOf(h)), LAMBDA r :
      ParseResult(RootCstNode(name, r.content, FALSE), SizeAdd(h.len, r.len),
                  SizeAdd(h.len, r.len) = Size(0),
                  value_converter(_rules[name], RootCstNode(name, r.content, FALSE)), r)))

\* TerminalRule::parse skipping the hidden tokens before the token, as the other rules do
TerminalRule_parse_skipping(name) ==
  Let(skipHiddenNodes(0, Fresh(<<>>)), LAMBDA h :
    Let(SizeAdd(h.len, Rule_parse_terminal(name, h.len)), LAMBDA len :
      ParseResult(RootCstNode(name, h.content, TRUE), len, len = Size(0),
                  value_converter(_rules[name], RootCstNode(name, h.content, TRUE)),
                  StateOf(h))))

\* TerminalRule::parse
TerminalRule_parse(name) ==
  Let(Rule_parse_terminal(name, 0), LAMBDA len :
    ParseResult(RootCstNode(name, <<>>, TRUE), len, len = Size(0),
                value_converter(_rules[name], RootCstNode(name, <<>>, TRUE)), Fresh(<<>>)))

\* ------------------------------------------------------------------------
\* The rules the builders of Parser create

\* Parser::rule<T>(name) = element, T an AstNode
ParserRule(element) ==
  [kind |-> "ParserRule", _element |-> element, _kind |-> "Normal", _value_converter |-> "none"]

\* Parser::rule(name) = element
DataTypeRule(element) ==
  [kind |-> "DataTypeRule", _element |-> element, _kind |-> "Normal", _value_converter |-> "leaves"]

\* Parser::terminal(name) = element
TerminalRule(element) ==
  [kind |-> "TerminalRule", _element |-> element, _kind |-> "Normal", _value_converter |-> "text"]

\* TerminalRule::hide / TerminalRule::ignore
hide(rule) == [rule EXCEPT !._kind = "Hidden"]

ignore(rule) == [rule EXCEPT !._kind = "Ignored"]

\* ------------------------------------------------------------------------
\* The parsers of the model: those of tests/pegium/grammar.cpp, and others
\* that use what the tests' grammars do not (a ParserRule with assignments
\* and a recursive call, a Hidden terminal, an UnorderedGroup constructed
\* inside an UnorderedGroup, a call of an Ignored terminal).

\* the byte strings the grammars and the inputs are made of
test == <<116, 101, 115, 116>>

SP == <<32>>

DOT == <<46>>

A == <<65>>

B == <<66>>

C == <<67>>

\* terminal("WS").ignore() = +s
WS == ignore(TerminalRule(at_least_one(s)))

\* a statement `rule(name) = element` or `terminal(name) = element` of a constructor
Statement(name, rule) == [name |-> name, rule |-> rule]

\* a null std::shared_ptr<IRule>
nullptr ==
  [kind |-> "nullptr", _element |-> Element(""), _kind |-> "Normal", _value_converter |-> "none"]

\* the names the calls of an element are made with
RECURSIVE Calls(_)
Calls(e) ==
  (IF e.kind = "RuleCall" THEN {e.rule} ELSE {})
    \cup UNION {Calls(e.elements[k]) : k \in 1..Len(e.elements)}

\* the element with every call(name) in it executed on the map `rules`:
\* RuleCall{_rules[name]} refers to the entry of the map
RECURSIVE Called(_, _)
Called(rules, e) ==
  [e EXCEPT !.bound = IF e.kind # "RuleCall" THEN @
                      ELSE IF e.rule \in DOMAIN rules THEN rules[e.rule].kind ELSE "nullptr",
            !.elements = [k \in 1..Len(e.elements) |-> Called(rules, e.elements[k])]]

\* One statement executed on the map `rules`.  The right-hand side is
\* evaluated first: each call(name) does _rules[name], which inserts a null
\* pointer under a name the map does not have.  Then rule(name) /
\* terminal(name) does _rules[name] = rule, and operator= sets _element.
Execute(rules, statement) ==
  [name \in DOMAIN rules \cup Calls(statement.rule._element) \cup {statement.name} |->
     IF name = statement.name
     THEN [statement.rule EXCEPT !._element = Called(rules, statement.rule._element)]
     ELSE IF name \in DOMAIN rules THEN rules[name] ELSE nullptr]

\* a constructor executed, statement after statement, on the map `rules`
RECURSIVE Construct(_, _)
Construct(rules, statements) ==
  IF statements = <<>> THEN rules
  ELSE Construct(Execute(rules, Head(statements)), Tail(statements))

\* a parser with the rules WS, RULE and TERM, as in every test of grammar.cpp
TestParser(element) ==
  <<Statement("WS", WS), Statement("RULE", DataTypeRule(element)),
    Statement("TERM", TerminalRule(element))>>

\* Two members that start with the same token, the first constructed as an
\* UnorderedGroup of its own: UnorderedGroup<UnorderedGroup<A, B>, A>
NestedElement == UnorderedGroup(<<UnorderedGroup(<<kw(A), kw(B)>>), kw(A)>>)

\* terminal("WS").ignore() = +s;
\* terminal("COMMENT").hide() = "#"_kw;
\* terminal("ID") = "A-C"_cr + *w;
\* rule<Node>("Node") = "("_kw + many(append<&Node::children>(call("Node"))
\*                                    | assign<&Node::name>(ID)) + ")"_kw;
NodeParser ==
  <<Statement("WS", WS),
    Statement("COMMENT", hide(TerminalRule(kw(<<35>>)))),
    Statement("ID", TerminalRule(Plus(cr(<<65, 45, 67>>), many(w)))),
    Statement("Node", ParserRule(
      Plus(Plus(kw(<<40>>),
                many(Bar(Assignment("children", call("Node")),
                         Assignment("name", RuleWrapper("ID"))))),
           kw(<<41>>))))>>

\* terminal("SL_COMMENT").hide() = "##"_kw;
\* terminal("HASH").hide() = "#"_kw;
\* rule("RULE") = "A"_kw;
TwoHiddenParser ==
  <<Statement("SL_COMMENT", hide(TerminalRule(kw(<<35, 35>>)))),
    Statement("HASH", hide(TerminalRule(kw(<<35>>)))),
    Statement("RULE", DataTypeRule(kw(A)))>>

\* terminal("WS").ignore() = +s;
\* rule("RULE") = opt(call("WS")) + "A"_kw;
IgnoredCallParser ==
  <<Statement("WS", WS), Statement("RULE", DataTypeRule(Plus(opt(call("WS")), kw(A))))>>

\* rule<Value>("Value") = call("Array") | "A"_kw;
\* rule<Array>("Array") = "("_kw + many(call("Value")) + ")"_kw;
\* as JsonValue and JsonArray of tests/pegium/json.cpp
Value == Statement("Value", ParserRule(Bar(call("Array"), kw(A))))

Array == Statement("Array", ParserRule(Plus(Plus(kw(<<40>>), many(call("Value"))), kw(<<41>>))))

ParserNames ==
  {"Literal", "CharactersRanges", "Optional", "Many", "ManySep", "AtLeastOne",
   "AtLeastOneSep", "Repetition", "Group", "UnorderedGroup", "PrioritizedChoice",
   "PrioritizedChoiceWithGroup", "Nested", "Node", "IgnoredCall", "AnyCharacter",
   "ValueFirst", "ArrayFirst", "Insensitive", "Nullable", "TwoHidden",
   "EmptyHidden", "Predicates", "Until", "AssignedLiteral", "NullableGroup"}

\* the statements of the constructor of each parser, in the order of execution
Constructor(p) ==
  CASE p = "Literal" -> TestParser(kw(test))
    [] p = "CharactersRanges" -> TestParser(cr(<<97, 45, 101, 48, 45, 50, 106>>))
    [] p = "Optional" -> TestParser(opt(kw(test)))
    [] p = "Many" -> TestParser(many(kw(test)))
    [] p = "ManySep" -> TestParser(many_sep(kw(DOT), kw(test)))
    [] p = "AtLeastOne" -> TestParser(at_least_one(kw(test)))
    [] p = "AtLeastOneSep" -> TestParser(at_least_one_sep(kw(DOT), kw(test)))
    [] p = "Repetition" -> TestParser(rep(2, 3, kw(test)))
    [] p = "Group" -> TestParser(Plus(kw(A), kw(B)))
    [] p = "UnorderedGroup" -> TestParser(Amp(Amp(kw(A), kw(B)), kw(C)))
    [] p = "PrioritizedChoice" -> TestParser(Bar(kw(A), kw(B)))
    [] p = "PrioritizedChoiceWithGroup" ->
         TestParser(Bar(Plus(kw(A), kw(B)), Plus(kw(A), kw(C))))
    [] p = "Nested" -> TestParser(NestedElement)
    [] p = "Node" -> NodeParser
    [] p = "IgnoredCall" -> IgnoredCallParser
    [] p = "AnyCharacter" -> TestParser(Plus(dot, kw(A)))
    [] p = "ValueFirst" -> <<Statement("WS", WS), Value, Array>>
    [] p = "ArrayFirst" -> <<Statement("WS", WS), Array, Value>>
    [] p = "TwoHidden" -> TwoHiddenParser
    \* terminal("WS").hide() = *s;  rule("RULE") = "A"_kw;
    [] p = "EmptyHidden" -> <<Statement("WS", hide(TerminalRule(many(s)))),
                              Statement("RULE", DataTypeRule(kw(A)))>>
    \* terminal("WS").hide() = +s;  rule("RULE") = &"A"_kw + !"B"_kw + dot + eof;
    \* terminal("TERM") the same
    [] p = "Predicates" ->
         <<Statement("WS", hide(TerminalRule(at_least_one(s)))),
           Statement("RULE", DataTypeRule(Plus(Plus(AndPredicate(kw(A)), NotPredicate(kw(B))),
                                               Plus(dot, eof)))),
           Statement("TERM", TerminalRule(Plus(Plus(AndPredicate(kw(A)), NotPredicate(kw(B))),
                                               Plus(dot, eof))))>>
    \* "/*"_kw >> "*/"_kw, as ML_COMMENT of xsmp.cpp
    [] p = "Until" -> TestParser(Until(kw(<<47, 42>>), kw(<<42, 47>>)))
    \* terminal("COMMENT").hide() = "#"_kw;
    \* rule<Node>("Node") = assign<&Node::name>("A"_kw | "B"_kw) + opt("C"_kw);
    [] p = "AssignedLiteral" ->
         <<Statement("COMMENT", hide(TerminalRule(kw(<<35>>)))),
           Statement("Node", ParserRule(Plus(Assignment("name", Bar(kw(A), kw(B))),
                                             opt(kw(C)))))>>
    \* "B"_kw & opt("A"_kw)
    [] p = "NullableGroup" -> TestParser(Amp(kw(B), opt(kw(A))))
    \* rep<0, 3>(opt("A"_kw))
    [] p = "Nullable" -> TestParser(rep(0, 3, opt(kw(A))))
    \* "Ab"_kw.i() | "@"_kw.i()
    [] p = "Insensitive" -> TestParser(Bar(Literal_i(kw(<<65, 98>>)), Literal_i(kw(<<64>>))))

\* the parsers constructed: their _rules when the constructor has returned
Parsers == [p \in ParserNames |-> Construct([name \in {} |-> nullptr], Constructor(p))]

\* Parser::_rules of parser p
Rules(p) == Parsers[p]

\* ------------------------------------------------------------------------
\* The inputs

RECURSIVE Cat(_)
Cat(pieces) == IF pieces = <<>> THEN <<>> ELSE Head(pieces) \o Cat(Tail(pieces))

\* the concatenations of at most n of the pieces
RECURSIVE Concatenations(_, _)
Concatenations(pieces, n) ==
  IF n = 0 THEN {<<>>}
  ELSE LET shorter == Concatenations(pieces, n - 1) IN
       shorter \cup {t \o piece : t \in shorter, piece \in pieces}

\* the pieces the inputs of a parser are made of
Pieces(p) ==
  CASE p \in {"Literal", "Optional", "Many", "ManySep", "AtLeastOne", "AtLeastOneSep",
              "Repetition"} -> {test, SP, DOT}
    [] p = "CharactersRanges" -> {<<97>>, <<102>>, SP}
    [] p = "Node" -> {<<40>>, <<41>>, A, SP, <<35>>}
    [] p \in {"IgnoredCall", "Nullable", "EmptyHidden"} -> {A, SP}
    [] p = "TwoHidden" -> {A, <<35>>}
    [] p = "AssignedLiteral" -> {A, B, <<35>>}
    [] p = "Predicates" -> {A, B, SP, <<169>>}
    [] p = "Until" -> {<<47, 42>>, <<42, 47>>, A, <<195>>}
    [] p \in {"ValueFirst", "ArrayFirst"} -> {<<40>>, <<41>>, A, SP}
    [] p = "AnyCharacter" -> {A, SP, <<195>>, <<169>>}
    [] p = "NullableGroup" -> {A, B, SP}
    [] p = "Insensitive" -> {A, B, <<97>>, <<98>>, <<64>>}
    [] OTHER -> {A, B, C, SP}

\* inputs longer than MaxPieces pieces: those of the tests of grammar.cpp, and
\* for the parsers that grammar.cpp does not have, inputs of the same shape
TestInputs(p) ==
  CASE p = "Literal" -> {Cat(<<SP, SP, test, SP, SP>>)}
    [] p = "Optional" -> {Cat(<<SP, SP, test, SP, SP>>), Cat(<<SP, SP, SP, SP>>)}
    [] p = "Many" -> {Cat(<<SP, test, SP, SP, test, SP, SP, SP>>),
                      Cat(<<test, SP, test, SP, test, SP, test, SP, test>>),
                      Cat(<<test, test, test, test, test>>)}
    [] p = "ManySep" -> {Cat(<<SP, test, SP, DOT, SP, test, SP>>),
                         Cat(<<test, DOT, test, DOT, test, DOT, SP, test, DOT, test>>),
                         Cat(<<SP, test, SP, SP, DOT, SP, test, SP, SP, SP>>),
                         Cat(<<test, DOT, test, SP>>),
                         Cat(<<test, DOT, test, DOT, test, DOT, test, DOT, test>>)}
    [] p = "AtLeastOne" -> {Cat(<<test, SP, test, SP, test, SP, test, SP, test>>),
                            Cat(<<test, test, test, test, test>>)}
    [] p = "AtLeastOneSep" ->
         {Cat(<<SP, SP, test, DOT, test, SP, DOT, SP, test, DOT, test, DOT, test, SP, SP>>),
          Cat(<<SP, test, SP, SP, DOT, SP, test, SP, SP, SP>>),
          Cat(<<test, SP, DOT, test>>),
          Cat(<<test, DOT, test, DOT, test, DOT, test, DOT, test>>)}
    [] p = "Repetition" -> {Cat(<<test, SP, test, SP, test>>),
                            Cat(<<test, SP, test, SP, test, SP, test>>),
                            Cat(<<SP, test, SP, SP, SP, test, SP, SP, SP>>),
                            Cat(<<test, test, test, test>>)}
    [] p = "CharactersRanges" -> {Cat(<<SP, SP, <<97>>, SP, SP>>)}
    [] p = "Group" -> {Cat(<<SP, SP, A, SP, SP, B>>), Cat(<<SP, A, SP, SP, SP, B, SP, SP>>)}
    [] p = "UnorderedGroup" ->
         {Cat(<<SP, SP, A, SP, SP, B, SP, C>>), Cat(<<SP, SP, A, SP, SP, C, SP, B>>),
          Cat(<<SP, SP, B, SP, SP, A, SP, C>>), Cat(<<SP, SP, B, SP, SP, C, SP, A>>),
          Cat(<<SP, SP, C, SP, SP, A, SP, B>>), Cat(<<SP, SP, C, SP, SP, B, SP, A>>),
          Cat(<<SP, A, SP, SP, C, SP, B, SP, SP>>), Cat(<<A, SP, B, SP, B>>),
          Cat(<<C, SP, A, SP, B>>), Cat(<<B, SP, C, SP, A>>)}
    [] p = "PrioritizedChoice" -> {Cat(<<SP, SP, A, SP, SP>>), Cat(<<SP, A, SP, SP, SP, SP, SP>>)}
    [] p = "PrioritizedChoiceWithGroup" ->
         {Cat(<<SP, SP, A, SP, SP, B>>), Cat(<<SP, A, SP, C, SP, SP>>),
          Cat(<<SP, A, SP, SP, SP, B, SP, SP>>)}
    [] p = "Nested" -> {Cat(<<A, SP, A, SP, B>>), Cat(<<A, SP, B, SP, A>>)}
    [] p = "Node" -> {Cat(<<<<40>>, A, SP, <<40>>, <<41>>, <<35>>, <<41>>>>),
                      Cat(<<<<35>>, SP, <<40>>, <<40>>, A, A, SP, <<35>>, <<41>>, A, <<41>>, SP>>)}
    [] p \in {"ValueFirst", "ArrayFirst"} ->
         {Cat(<<<<40>>, <<40>>, A, <<41>>, A, <<41>>>>),
          Cat(<<<<40>>, SP, <<40>>, <<41>>, A, SP, <<41>>>>)}
    [] p = "AnyCharacter" -> {<<226, 169, 169>>, <<226, 169>>, <<226, 65, 65>>,
                              <<240, 169, 169, 169>>, <<240, 169, 169>>, <<240, 65, 65, 65>>,
                              <<248, 169, 169, 169>>, <<195, 65>>, <<127>>, <<128>>, <<191>>,
                              <<192, 169>>, <<223, 169>>, <<224, 169, 169>>, <<239, 169, 169>>,
                              <<247, 169, 169, 169>>, <<255, 169, 169, 169>>}
    [] p = "Until" -> {<<47, 42, 47>>, <<47, 42, 65, 42, 47, 42, 47>>,
                       <<47, 42, 32, 65, 32, 42, 47, 32>>, <<47, 42, 195, 42, 47, 42, 47>>}
    [] OTHER -> {}

\* how many "(" are open after each byte of t, at most
RECURSIVE Depth(_, _)
Depth(t, open) ==
  IF t = <<>> THEN open
  ELSE LET after == IF Head(t) = 40 THEN open + 1
                    ELSE IF Head(t) = 41 /\ open > 0 THEN open - 1
                    ELSE open
       IN IF Depth(Tail(t), after) > after THEN Depth(Tail(t), after) ELSE after

Texts(p) ==
  {t \in Concatenations(Pieces(p), MaxPieces) \cup TestInputs(p) : Depth(t, 0) <= MaxDepth}

\* ------------------------------------------------------------------------
\* The elements of a parser

\* the paths of the elements in the sub-tree of e (<<>> is e itself)
RECURSIVE Paths(_)
Paths(e) ==
  {<<>>} \cup UNION {{<<k>> \o path : path \in Paths(e.elements[k])} : k \in 1..Len(e.elements)}

\* the addresses of all elements of the rules
Sources == UNION {{Source(name, path) : path \in Paths(_rules[name]._element)} :
                  name \in DOMAIN _rules}

\* the element at `path` below e
RECURSIVE ElementBelow(_, _)
ElementBelow(e, path) ==
  IF path = <<>> THEN e ELSE ElementBelow(e.elements[Head(path)], Tail(path))

\* the element at the address src
ElementAt(src) == ElementBelow(_rules[src.rule]._element, src.path)

\* a child the parent already has before an element is matched into it
Sentinel == CstNode(0, 0, 0, <<>>, NullSource, TRUE, FALSE)

\* ------------------------------------------------------------------------
\* Reference<T> (syntax-tree.hpp): one Reference, and threads that call get()
\* on it.  Each statement of get() that reads or writes what the threads
\* share is one step.

MaxThreads == 2

MaxGets == 2

Threads == 1..MaxThreads

\* the AstNodes a resolver can return a pointer to
Targets == {"node1", "node2"}

\* the texts assigned to a Reference
RefTexts == {"a", "b"}

\* The members of a Reference after construction.  mutex holds the thread
\* that owns it, 0 when it is free.  `succeeded` is no member of the code:
\* it holds the values the invocations of the resolver have returned so far.
NewReference ==
  [resolved |-> FALSE, ref |-> "nullptr", mutex |-> 0, succeeded |-> <<>>, _refText |-> ""]

\* A thread: where it is in get(), the locals `value` and the return value
\* `ret`, and how many calls of get() it has finished.  For the record only:
\* `published` tells whether resolved was true when the call started,
\* `seen` whether it was true when `return ref` read the value to return,
\* `invoked` what the resolver did in this call ("" when it was not invoked),
\* `received` the text the thread's last invocation of the resolver was given,
\* `called_with` the text the Reference held when the call started.
NewThread ==
  [pc |-> "idle", value |-> "nullptr", ret |-> "nullptr", gets |-> 0,
   published |-> FALSE, seen |-> FALSE, invoked |-> "", received |-> "",
   called_with |-> ""]

\* what get() leaves alone
Parser_unchanged == UNCHANGED <<_rules, text, pc, called, result>>

\* a thread calls get()
get_call(t) ==
  /\ threads[t].pc = "idle"
  /\ threads[t].gets < MaxGets
  /\ threads' = [threads EXCEPT ![t] = [@ EXCEPT !.pc = "load", !.value = "nullptr",
                                                 !.ret = "nullptr", !.invoked = "",
                                                 !.seen = FALSE,
                                                 !.published = reference.resolved,
                                                 !.called_with = reference._refText]]
  /\ UNCHANGED reference
  /\ Parser_unchanged

\* if (resolved.load(std::memory_order_acquire))
get_load(t) ==
  /\ threads[t].pc = "load"
  /\ threads' = [threads EXCEPT ![t].pc = IF reference.resolved THEN "return_ref" ELSE "lock"]
  /\ UNCHANGED reference
  /\ Parser_unchanged

\* return ref; on the fast path
get_return_ref(t) ==
  /\ threads[t].pc = "return_ref"
  /\ threads' = [threads EXCEPT ![t] = [@ EXCEPT !.pc = "return", !.ret = reference.ref,
                                                 !.seen = reference.resolved]]
  /\ UNCHANGED reference
  /\ Parser_unchanged

\* std::scoped_lock lock(mutex);
get_lock(t) ==
  /\ threads[t].pc = "lock"
  /\ reference.mutex = 0
  /\ reference' = [reference EXCEPT !.mutex = t]
  /\ threads' = [threads EXCEPT ![t].pc = "check"]
  /\ Parser_unchanged

\* get() without the second test of resolved: the resolver is invoked by
\* every call that found resolved false at its start
get_check_once(t) ==
  /\ threads[t].pc = "check"
  /\ threads' = [threads EXCEPT ![t].pc = "resolve"]
  /\ UNCHANGED reference
  /\ Parser_unchanged

\* if (!resolved.load(std::memory_order_relaxed)): when it is false the
\* resolver is invoked, resolve(_refText)
get_check(t) ==
  /\ threads[t].pc = "check"
  /\ threads' = [threads EXCEPT ![t] =
                  IF ~reference.resolved
                  THEN [@ EXCEPT !.pc = "resolve", !.received = reference._refText]
                  ELSE [@ EXCEPT !.pc = "read"]]
  /\ UNCHANGED reference
  /\ Parser_unchanged

\* the resolver returns std::nullopt, and resolved is set all the same
get_resolved_nothing_stored(t) ==
  /\ threads[t].pc = "resolve"
  /\ threads' = [threads EXCEPT ![t] = [@ EXCEPT !.pc = "store", !.invoked = "nullopt"]]
  /\ UNCHANGED reference
  /\ Parser_unchanged

\* the resolver returns std::nullopt: if (value) is false
get_resolved_nothing(t) ==
  /\ threads[t].pc = "resolve"
  /\ threads' = [threads EXCEPT ![t] = [@ EXCEPT !.pc = "read", !.invoked = "nullopt"]]
  /\ UNCHANGED reference
  /\ Parser_unchanged

\* the resolver returns a pointer to target: if (value) is true
get_resolved(t, target) ==
  /\ threads[t].pc = "resolve"
  /\ threads' = [threads EXCEPT ![t] = [@ EXCEPT !.pc = "assign", !.value = target,
                                                 !.invoked = "value"]]
  /\ reference' = [reference EXCEPT !.succeeded = Append(@, target)]
  /\ Parser_unchanged

\* the call of resolve throws (std::bad_function_call when the std::function
\* is empty): the lock is released and get() is left by the exception
get_throw(t) ==
  /\ threads[t].pc = "resolve"
  /\ threads' = [threads EXCEPT ![t] = [@ EXCEPT !.pc = "idle", !.invoked = "throw",
                                                 !.gets = @ + 1]]
  /\ reference' = [reference EXCEPT !.mutex = 0]
  /\ Parser_unchanged

\* ref = value.value();
get_assign(t) ==
  /\ threads[t].pc = "assign"
  /\ reference' = [reference EXCEPT !.ref = threads[t].value]
  /\ threads' = [threads EXCEPT ![t].pc = "store"]
  /\ Parser_unchanged

\* resolved.store(true, std::memory_order_release);
get_store(t) ==
  /\ threads[t].pc = "store"
  /\ reference' = [reference EXCEPT !.resolved = TRUE]
  /\ threads' = [threads EXCEPT ![t].pc = "read"]
  /\ Parser_unchanged

\* return ref; with the lock held: the value to return is read
get_read(t) ==
  /\ threads[t].pc = "read"
  /\ threads' = [threads EXCEPT ![t] = [@ EXCEPT !.pc = "unlock", !.ret = reference.ref,
                                                 !.seen = reference.resolved]]
  /\ UNCHANGED reference
  /\ Parser_unchanged

\* the destructor of lock, which runs after the value to return is read
get_unlock(t) ==
  /\ threads[t].pc = "unlock"
  /\ reference' = [reference EXCEPT !.mutex = 0]
  /\ threads' = [threads EXCEPT ![t].pc = "return"]
  /\ Parser_unchanged

\* get() returns ret to its caller
get_return(t) ==
  /\ threads[t].pc = "return"
  /\ threads' = [threads EXCEPT ![t] = [@ EXCEPT !.pc = "idle", !.gets = @ + 1]]
  /\ UNCHANGED reference
  /\ Parser_unchanged

\* operator=(std::string) that also forgets the resolution
operator_assign_reset(refText) ==
  /\ reference' = [reference EXCEPT !._refText = refText, !.resolved = FALSE, !.ref = "nullptr"]
  /\ UNCHANGED threads
  /\ Parser_unchanged

\* Reference::operator=(std::string refText): _refText = std::move(refText),
\* made by the owner of the Reference without taking the mutex.  A resolver
\* that is running was given _refText by reference: its read races with the
\* assignment and finds the old text, the new one or a torn one.
operator_assign(refText) ==
  /\ reference' = [reference EXCEPT !._refText = refText]
  /\ \E found \in {"old", refText, "torn"} :
       threads' = [t \in Threads |->
                    IF threads[t].pc = "resolve" /\ found # "old"
                    THEN [threads[t] EXCEPT !.received = found]
                    ELSE threads[t]]
  /\ Parser_unchanged

\* ------------------------------------------------------------------------
\* The state machine: a parser is constructed and given an input (Init);
\* then one call is made: Parser::parse(name, text) on one of its rules, or
\* parse_rule / parse_terminal on one of its elements with sv = text.

NoCall == [name |-> "", src |-> NullSource, content |-> <<>>]

\* The end of a call that returns r.  When an assert() was false on the way,
\* the build decides: with NDEBUG the call returns r, without it the process
\* is aborted at the assert and nothing is returned.  With NDEBUG a hidden
\* match of length 0 leaves skipHiddenNodes in its while (true) loop: the
\* call never returns.
Returns(at, r) ==
  \/ /\ ZeroLengthHidden \notin r.failed
     /\ pc' = at
     /\ result' = r
  \/ /\ ZeroLengthHidden \in r.failed
     /\ pc' = "loop"
     /\ result' = [result EXCEPT !.failed = r.failed]
  \/ /\ r.failed # {}
     /\ pc' = "abort"
     /\ result' = [result EXCEPT !.failed = r.failed]

Init ==
  \E p \in ParserNames :
    /\ _rules = Rules(p)
    /\ text \in Texts(p)
    /\ pc = "idle"
    /\ called = NoCall
    /\ result = ParseResult(Sentinel, 0, FALSE, NoValue, Fresh(<<>>))
    /\ reference = NewReference
    /\ threads = [t \in Threads |-> NewThread]

\* Parser::parse(name, text), name a ParserRule
ParseParserRule(name) ==
  /\ pc = "idle"
  /\ _rules[name].kind = "ParserRule"
  /\ called' = [NoCall EXCEPT !.name = name]
  /\ Returns("parse", ParserRule_parse(name))
  /\ UNCHANGED <<_rules, text, reference, threads>>

\* Parser::parse(name, text), name a DataTypeRule
ParseDataTypeRule(name) ==
  /\ pc = "idle"
  /\ _rules[name].kind = "DataTypeRule"
  /\ called' = [NoCall EXCEPT !.name = name]
  /\ Returns("parse", DataTypeRule_parse(name))
  /\ UNCHANGED <<_rules, text, reference, threads>>

\* Parser::parse(name, text), name a TerminalRule
ParseTerminalRule(name) ==
  /\ pc = "idle"
  /\ _rules[name].kind = "TerminalRule"
  /\ called' = [NoCall EXCEPT !.name = name]
  /\ Returns("parse", TerminalRule_parse(name))
  /\ UNCHANGED <<_rules, text, reference, threads>>

\* element.parse_rule(text, parent, c) on a parent with the children `content`
ElementParseRule(src, content) ==
  /\ pc = "idle"
  /\ called' = [NoCall EXCEPT !.src = src, !.content = content]
  /\ Returns("parse_rule", parse_rule(ElementAt(src), src, 0, Fresh(content)))
  /\ UNCHANGED <<_rules, text, reference, threads>>

\* element.parse_terminal(text)
ElementParseTerminal(src) ==
  /\ pc = "idle"
  /\ called' = [NoCall EXCEPT !.src = src]
  /\ Returns("parse_terminal", Return(parse_terminal(ElementAt(src), 0), Fresh(<<>>)))
  /\ UNCHANGED <<_rules, text, reference, threads>>

Next ==
  \/ \E name \in DOMAIN _rules : ParseParserRule(name)
  \/ \E name \in DOMAIN _rules : ParseDataTypeRule(name)
  \/ \E name \in DOMAIN _rules : ParseTerminalRule(name)
  \/ \E src \in Sources, content \in {<<>>, <<Sentinel>>} : ElementParseRule(src, content)
  \/ \E src \in Sources : ElementParseTerminal(src)

Spec == Init /\ [][Next]_vars

\* The threads that call get() on one Reference; no parse is going on.
InitReference ==
  /\ _rules = Rules("Literal")
  /\ text = <<>>
  /\ pc = "idle"
  /\ called = NoCall
  /\ result = ParseResult(Sentinel, 0, FALSE, NoValue, Fresh(<<>>))
  /\ reference = NewReference
  /\ threads = [t \in Threads |-> NewThread]

NextReference ==
  \/ \E t \in Threads : get_call(t)
  \/ \E t \in Threads : get_load(t)
  \/ \E t \in Threads : get_return_ref(t)
  \/ \E t \in Threads : get_lock(t)
  \/ \E t \in Threads : get_check(t)
  \/ \E t \in Threads : get_resolved_nothing(t)
  \/ \E t \in Threads, target \in Targets : get_resolved(t, target)
  \/ \E t \in Threads : get_throw(t)
  \/ \E t \in Threads : get_assign(t)
  \/ \E t \in Threads : get_store(t)
  \/ \E t \in Threads : get_read(t)
  \/ \E t \in Threads : get_unlock(t)
  \/ \E t \in Threads : get_return(t)

SpecReference == InitReference /\ [][NextReference]_vars

\* The same threads, and the owner of the Reference assigning texts to it
NextAssign ==
  \/ \E t \in Threads : get_call(t)
  \/ \E t \in Threads : get_load(t)
  \/ \E t \in Threads : get_return_ref(t)
  \/ \E t \in Threads : get_lock(t)
  \/ \E t \in Threads : get_check(t)
  \/ \E t \in Threads : get_resolved_nothing(t)
  \/ \E t \in Threads, target \in Targets : get_resolved(t, target)
  \/ \E t \in Threads : get_throw(t)
  \/ \E t \in Threads : get_assign(t)
  \/ \E t \in Threads : get_store(t)
  \/ \E t \in Threads : get_read(t)
  \/ \E t \in Threads : get_unlock(t)
  \/ \E t \in Threads : get_return(t)
  \/ \E refText \in RefTexts : operator_assign(refText)

SpecAssign == InitReference /\ [][NextAssign]_vars

\* The calls of hide() and ignore() on the terminals of a parser, at any
\* time: and the parses between them.  terminal(name) returns the
\* TerminalRule by reference, and hide() and ignore() are public.
InitTerminal ==
  /\ _rules = Rules("Literal")
  /\ text \in Texts("Literal")
  /\ pc = "idle"
  /\ called = NoCall
  /\ result = ParseResult(Sentinel, 0, FALSE, NoValue, Fresh(<<>>))
  /\ reference = NewReference
  /\ threads = [t \in Threads |-> NewThread]

\* TerminalRule::hide on the terminal `name`
TerminalRule_hide(name) ==
  /\ _rules[name].kind = "TerminalRule"
  /\ _rules' = [_rules EXCEPT ![name] = hide(@)]
  /\ UNCHANGED <<text, pc, called, result, reference, threads>>

\* TerminalRule::ignore on the terminal `name`
TerminalRule_ignore(name) ==
  /\ _rules[name].kind = "TerminalRule"
  /\ _rules' = [_rules EXCEPT ![name] = ignore(@)]
  /\ UNCHANGED <<text, pc, called, result, reference, threads>>

NextTerminal ==
  \/ \E name \in DOMAIN _rules : TerminalRule_hide(name)
  \/ \E name \in DOMAIN _rules : TerminalRule_ignore(name)
  \/ \E name \in DOMAIN _rules : ParseDataTypeRule(name)
  \/ \E name \in DOMAIN _rules : ParseTerminalRule(name)

SpecTerminal == InitTerminal /\ [][NextTerminal]_vars

\* ------------------------------------------------------------------------
\* Definitions the properties below are stated with

\* the call made was Parser::parse on a rule of this kind
Parsed(kind) == pc = "parse" /\ _rules[called.name].kind = kind

\* the call made was Parser::parse(name, t) on parser p
ParsedText(p, name, t) ==
  pc = "parse" /\ called.name = name /\ text = t /\ _rules = Rules(p)

\* the call made was parse_rule / parse_terminal on an element of this kind
MatchedRule(kind) == pc = "parse_rule" /\ ElementAt(called.src).kind = kind

MatchedTerminal(kind) == pc = "parse_terminal" /\ ElementAt(called.src).kind = kind

\* the length member k of the element e at src matches at pos, in the mode of the call made
MemberLen(e, src, k, pos) ==
  IF pc = "parse_rule"
  THEN parse_rule(e.elements[k], Member(src, k), pos, Fresh(<<>>)).len
  ELSE parse_terminal(e.elements[k], pos)

\* the least index of a success in a sequence of lengths, 0 when there is none
FirstSuccess(lens) ==
  IF \E k \in DOMAIN lens : success(lens[k])
  THEN CHOOSE k \in DOMAIN lens : success(lens[k]) /\ \A j \in 1..(k - 1) : fail(lens[j])
  ELSE 0

\* a child list without the node numbers
RECURSIVE Unnumbered(_)
Unnumbered(content) ==
  [k \in 1..Len(content) |->
     [content[k] EXCEPT !.id = 0, !.content = Unnumbered(content[k].content)]]

\* the numbers of the nodes of a child list, at any depth
RECURSIVE NodeIds(_)
NodeIds(content) ==
  UNION {{content[k].id} \cup NodeIds(content[k].content) : k \in 1..Len(content)}

\* the non-hidden leaves of a child list, in pre-order
RECURSIVE Leaves(_)
Leaves(content) ==
  IF content = <<>> THEN <<>>
  ELSE (IF Head(content).isLeaf /\ ~Head(content).hidden THEN <<TextOf(Head(content))>> ELSE <<>>)
         \o Leaves(Head(content).content) \o Leaves(Tail(content))

\* how many parse_rule calls the call made on the element at src with the view at pos
Attempts(src, pos) ==
  Cardinality({n \in DOMAIN result.log : result.log[n].src = src /\ result.log[n].pos = pos})

\* how many parse_rule calls the call made on the element at src
AllAttempts(src) == Cardinality({n \in DOMAIN result.log : result.log[n].src = src})

\* some hidden or ignored terminal matches at pos
HiddenAt(pos) ==
  \E k \in 1..Len(createContext) : success(Rule_parse_terminal(createContext[k], pos))

\* ------------------------------------------------------------------------
\* C1: for every rule kind and every input, the result of parse has
\* ret = true if and only if len = |text|.
FullMatchEquivalence ==
  pc = "parse" => (result.ret <=> result.len = Len(text))

\* a ParserRule matched the whole input, hidden tokens before its body included
FullMatchWitness ==
  /\ Parsed("ParserRule")
  /\ result.ret
  /\ Len(result.root_node.content) > 1
  /\ result.len > 0

\* ------------------------------------------------------------------------
\* C2: when a rule-mode match of any expression fails, the parent's child list
\* is exactly what it was before the attempt, also when some members of an
\* UnorderedGroup matched before the group failed as a whole.
FailureRestoresParent ==
  (pc = "parse_rule" /\ fail(result.len)) => result.content = called.content

\* "A" & "B" & "C" matched "A C" in rule mode: the group fails and leaves the leaves of A and C in the parent
UnorderedGroupLeak ==
  /\ MatchedRule("UnorderedGroup")
  /\ _rules = Rules("UnorderedGroup")
  /\ text = Cat(<<A, SP, C>>)
  /\ called.content = <<>>
  /\ fail(result.len)
  /\ Len(result.content) = 2

\* ------------------------------------------------------------------------
\* C3: in the CST a top-level parse of a Parser rule or a DataType rule
\* returns, no node appended during a sub-match that failed remains.
NoNodeOfFailedSubMatch ==
  (Parsed("ParserRule") \/ Parsed("DataTypeRule"))
    => NodeIds(result.root_node.content) \cap result.dead = {}

\* ("A" & "B") & "A", the inner group a member of the outer one, parsed "A A B": the
\* tree returned holds the leaf the inner group appended before it failed
NestedLeak ==
  /\ ParsedText("Nested", "RULE", Cat(<<A, SP, A, SP, B>>))
  /\ result.ret
  /\ NodeIds(result.root_node.content) \cap result.dead # {}
  /\ Leaves(result.root_node.content) = <<A, A, A, B>>
  /\ result.value = AnyString(Cat(<<A, A, A, B>>))

\* ------------------------------------------------------------------------
\* C4: a rule-mode Literal or CharactersRanges whose last matched byte is a
\* word character fails exactly when a next byte exists and is a word
\* character; at the end of the input it succeeds; in terminal mode the same
\* match succeeds whatever follows.

\* the input starts with what the Literal or CharactersRanges e accepts
StartsWith(e) ==
  IF e.kind = "Literal"
  THEN /\ Len(e.literal) <= Len(text)
       /\ \A k \in 1..Len(e.literal) :
            e.literal[k] = (IF e.case_sensitive THEN text[k] ELSE tolower(text[k]))
  ELSE Len(text) > 0 /\ text[1] \in e.lookup

\* with n bytes matched, the last of them and the byte after them are word characters
InsideWord(n) ==
  /\ isword(text[n])
  /\ n < Len(text)
  /\ isword(text[n + 1])

WordBoundary ==
  /\ \A kind \in {"Literal", "CharactersRanges"} :
       LET e == ElementAt(called.src)
           n == IF kind = "Literal" THEN Len(e.literal) ELSE 1
       IN /\ MatchedTerminal(kind) =>
               result.len = (IF StartsWith(e) THEN n ELSE PARSE_ERROR)
          /\ MatchedRule(kind) =>
               /\ success(result.len) <=> (StartsWith(e) /\ ~InsideWord(n))
               /\ success(result.len) =>
                    /\ result.len >= n
                    /\ Len(result.content) > Len(called.content)
                    /\ TextOf(result.content[Len(called.content) + 1]) = SubSeq(text, 1, n)
  /\ ParsedText("Literal", "RULE", test \o test) => ~result.ret
  /\ ParsedText("Literal", "RULE", test) => result.ret
  /\ ParsedText("AtLeastOne", "RULE", test \o test) => ~result.ret
  /\ ParsedText("Many", "TERM", test \o test) => result.ret

\* the literal "test" was matched in rule mode against "testtest" and failed on the boundary
WordBoundaryWitness ==
  /\ MatchedRule("Literal")
  /\ text = test \o test
  /\ StartsWith(ElementAt(called.src))
  /\ fail(result.len)

\* ------------------------------------------------------------------------
\* C5: an OrderedChoice, in both modes, gives the result of its left-most
\* succeeding alternative and fails exactly when all alternatives fail; no
\* alternative after the first successful one is attempted; in rule mode the
\* children appended are exactly those of the winning alternative.
LeftMostAlternative ==
  /\ MatchedTerminal("OrderedChoice") =>
       LET e == ElementAt(called.src)
           lens == [k \in 1..Len(e.elements) |-> parse_terminal(e.elements[k], 0)]
           k == FirstSuccess(lens)
       IN result.len = (IF k = 0 THEN PARSE_ERROR ELSE lens[k])
  /\ MatchedRule("OrderedChoice") =>
       LET e == ElementAt(called.src)
           alts == [k \in 1..Len(e.elements) |->
                      parse_rule(e.elements[k], Member(called.src, k), 0, Fresh(called.content))]
           k == FirstSuccess([j \in 1..Len(e.elements) |-> alts[j].len])
       IN /\ \A j \in 1..Len(e.elements) :
               Attempts(Member(called.src, j), 0) = (IF k = 0 \/ j <= k THEN 1 ELSE 0)
          /\ IF k = 0
             THEN fail(result.len)
             ELSE /\ result.len = alts[k].len
                  /\ Unnumbered(result.content) = Unnumbered(alts[k].content)
  /\ ParsedText("PrioritizedChoiceWithGroup", "RULE", Cat(<<A, SP, C>>)) =>
       /\ result.ret
       /\ Leaves(result.root_node.content) = <<A, C>>
       /\ result.value = AnyString(A \o C)

\* R = "A" "B" | "A" "C" matched "A C" in rule mode: the first alternative appended the
\* leaf of "A" and failed, the second won
SecondAlternativeWitness ==
  /\ MatchedRule("OrderedChoice")
  /\ _rules = Rules("PrioritizedChoiceWithGroup")
  /\ text = Cat(<<A, SP, C>>)
  /\ success(result.len)
  /\ result.dead # {}
  /\ Attempts(Member(called.src, 2), 0) = 1
  /\ Leaves(result.content) = Leaves(called.content) \o <<A, C>>

\* ------------------------------------------------------------------------
\* C6: an UnorderedGroup, in both modes, succeeds exactly when every member
\* has matched exactly once, in any order; at each step the lowest-index
\* member not yet matched that matches at the current position is consumed;
\* the length is the sum of the members' lengths; the group fails when a pass
\* matches nothing while some member is unmatched.

\* the length consumed from pos by taking, at each step, the lowest-index
\* member of `unmatched` that matches
RECURSIVE LowestFirst(_, _, _, _)
LowestFirst(e, src, pos, unmatched) ==
  IF unmatched = {} THEN 0
  ELSE LET matching == {k \in unmatched : success(MemberLen(e, src, k, pos))} IN
       IF matching = {} THEN PARSE_ERROR
       ELSE LET k == CHOOSE m \in matching : \A n \in matching : m <= n
                len == MemberLen(e, src, k, pos)
                rest == LowestFirst(e, src, pos + len, unmatched \ {k})
            IN IF fail(rest) THEN PARSE_ERROR ELSE len + rest

\* how many successful parse_rule calls the call made on the element at src
Successes(src) ==
  Cardinality({n \in DOMAIN result.log : result.log[n].src = src /\ success(result.log[n].len)})

\* the texts made of one "A", one "B" and one "C", spaces between them or not
Orders(sep) ==
  {Cat(<<x, sep, y, sep, z>>) : x \in {A, B, C}, y \in {A, B, C}, z \in {A, B, C}}

AllDifferent(t) == \A x \in {A, B, C} : \E k \in 1..Len(t) : <<t[k]>> = x

EachMemberOnce ==
  /\ (MatchedRule("UnorderedGroup") \/ MatchedTerminal("UnorderedGroup")) =>
       LET e == ElementAt(called.src) IN
       /\ result.len = LowestFirst(e, called.src, 0, 1..Len(e.elements))
       /\ (pc = "parse_rule" /\ success(result.len)) =>
            \A k \in 1..Len(e.elements) : Successes(Member(called.src, k)) = 1
  /\ Parsed("TerminalRule") =>
       \A t \in Orders(<<>>) :
         ParsedText("UnorderedGroup", "TERM", t) => (result.ret <=> AllDifferent(t))
  /\ Parsed("ParserRule") =>
       \A t \in Orders(SP) \cup TestInputs("UnorderedGroup") :
         ParsedText("UnorderedGroup", "RULE", t) => (result.ret <=> AllDifferent(t))
  /\ ParsedText("UnorderedGroup", "RULE", Cat(<<A, SP, C>>)) => ~result.ret
  /\ ParsedText("UnorderedGroup", "TERM", Cat(<<A, C>>)) => ~result.ret

\* "A" & "B" & "C" matched "C A B" in rule mode: three passes, C first
UnorderedGroupWitness ==
  /\ MatchedRule("UnorderedGroup")
  /\ text = Cat(<<C, SP, A, SP, B>>)
  /\ result.len = 5
  /\ Leaves(result.content) = Leaves(called.content) \o <<C, A, B>>

\* ------------------------------------------------------------------------
\* C7: Repetition<min, max> of e consumes k = min(max, the number of
\* consecutive matches of e available) matches; it fails exactly when fewer
\* than min are available; it never attempts e more than max times; a failed
\* optional iteration ends the loop without failing the repetition.

\* the consecutive matches of the body of e from pos, at most limit of them:
\* how many, and the length they consume
RECURSIVE Consecutive(_, _, _, _)
Consecutive(e, src, pos, limit) ==
  IF limit = 0 THEN [count |-> 0, len |-> 0]
  ELSE LET len == MemberLen(e, src, 1, pos) IN
       IF fail(len) THEN [count |-> 0, len |-> 0]
       ELSE LET rest == Consecutive(e, src, pos + len, limit - 1) IN
            [count |-> rest.count + 1, len |-> rest.len + len]

\* max, or when max is the largest size_t, more than the input can hold
\* matches of a body that consumes something
Limit(e) == IF e.max = PARSE_ERROR THEN Len(text) + 1 ELSE e.max

RepetitionCount ==
  /\ (MatchedRule("Repetition") \/ MatchedTerminal("Repetition")) =>
       LET e == ElementAt(called.src)
           k == Consecutive(e, called.src, 0, Limit(e))
       IN /\ fail(result.len) <=> k.count < e.min
          /\ success(result.len) => result.len = k.len
          /\ (pc = "parse_rule" /\ e.max # PARSE_ERROR) =>
               /\ AllAttempts(Member(called.src, 1)) =
                    (IF k.count < e.max THEN k.count + 1 ELSE e.max)
               /\ Successes(Member(called.src, 1)) = k.count
  /\ \A name \in {"RULE", "TERM"} :
       LET sep == IF name = "RULE" THEN SP ELSE <<>> IN
       /\ ParsedText("Repetition", name, test) => ~result.ret
       /\ ParsedText("Repetition", name, Cat(<<test, sep, test>>)) => result.ret
       /\ ParsedText("Repetition", name, Cat(<<test, sep, test, sep, test>>)) => result.ret
       /\ ParsedText("Repetition", name, Cat(<<test, sep, test, sep, test, sep, test>>)) =>
            /\ ~result.ret
            /\ result.len = 3 * Len(test \o sep)

\* rep<2, 3>("test") matched "testtesttesttest" in terminal mode: three taken, one left
FourthLeftWitness ==
  /\ MatchedTerminal("Repetition")
  /\ ElementAt(called.src).max = 3
  /\ text = Cat(<<test, test, test, test>>)
  /\ result.len = 12

\* ------------------------------------------------------------------------
\* C8: at_least_one_sep(sep, e) matches e (sep e)* and many_sep(sep, e)
\* matches (e (sep e)*)?; a separator that no e follows is not consumed and
\* leaves no CST node; "test." and "." are never full matches; the empty
\* input is a full match of many_sep and not of at_least_one_sep.

\* the length the element at src matches at pos, in the mode of the call made
ElementLen(src, pos) ==
  IF pc = "parse_rule"
  THEN parse_rule(ElementAt(src), src, pos, Fresh(<<>>)).len
  ELSE parse_terminal(ElementAt(src), pos)

\* the length of (sep e)* at pos
RECURSIVE SeparatedTail(_, _, _)
SeparatedTail(sepSrc, eSrc, pos) ==
  LET sepLen == ElementLen(sepSrc, pos) IN
  IF fail(sepLen) THEN 0
  ELSE LET eLen == ElementLen(eSrc, pos + sepLen) IN
       IF fail(eLen) THEN 0
       ELSE sepLen + eLen + SeparatedTail(sepSrc, eSrc, pos + sepLen + eLen)

\* the length of e (sep e)* at pos, for the at_least_one_sep at src
Separated(src, pos) ==
  LET first == ElementLen(Member(src, 1), pos)
      pair == Member(Member(src, 2), 1)
  IN IF fail(first) THEN PARSE_ERROR
     ELSE first + SeparatedTail(Member(pair, 1), Member(pair, 2), pos + first)

\* the call made was on the at_least_one_sep of a test parser, or on the many_sep of one
OnAtLeastOneSep ==
  /\ pc \in {"parse_rule", "parse_terminal"}
  /\ \/ _rules = Rules("AtLeastOneSep") /\ called.src.path = <<>>
     \/ _rules = Rules("ManySep") /\ called.src.path = <<1>>
  /\ called.src.rule \in {"RULE", "TERM"}

OnManySep ==
  /\ pc \in {"parse_rule", "parse_terminal"}
  /\ _rules = Rules("ManySep") /\ called.src.path = <<>>
  /\ called.src.rule \in {"RULE", "TERM"}

\* the leaves the call made appended to the parent
NewLeaves == Leaves(SubSeq(result.content, Len(called.content) + 1, Len(result.content)))

\* "test" ("." "test")*
Alternating(leaves) ==
  /\ Len(leaves) % 2 = 1
  /\ \A k \in 1..Len(leaves) : leaves[k] = (IF k % 2 = 1 THEN test ELSE DOT)

SeparatedRepetition ==
  /\ OnAtLeastOneSep =>
       /\ result.len = Separated(called.src, 0)
       /\ (pc = "parse_rule" /\ success(result.len)) => Alternating(NewLeaves)
       /\ (pc = "parse_rule" /\ fail(result.len)) => NewLeaves = <<>>
  /\ OnManySep =>
       LET len == Separated(Member(called.src, 1), 0) IN
       /\ result.len = (IF fail(len) THEN 0 ELSE len)
       /\ pc = "parse_rule" => (NewLeaves = <<>> \/ Alternating(NewLeaves))
  /\ \A p \in {"ManySep", "AtLeastOneSep"}, name \in {"RULE", "TERM"} :
       /\ ParsedText(p, name, test \o DOT) => ~result.ret /\ result.len = Len(test)
       /\ ParsedText(p, name, DOT) => ~result.ret
       /\ ParsedText(p, name, <<>>) => (result.ret <=> p = "ManySep")
       /\ ParsedText(p, name, Cat(<<test, DOT, test>>)) => result.ret

\* at_least_one_sep(".", "test") matched "test." in rule mode: the leaf of "." was
\* appended, no "test" followed, and the match ends before the "."
TrailingSeparatorWitness ==
  /\ OnAtLeastOneSep
  /\ pc = "parse_rule"
  /\ text = test \o DOT
  /\ result.len = Len(test)
  /\ result.dead # {}
  /\ NewLeaves = <<test>>

\* ------------------------------------------------------------------------
\* C9: parsing through a Terminal rule never skips hidden or ignored tokens
\* and never adds CST children: the root node is a leaf with an empty child
\* list, and an input with text of a hidden terminal before, inside or after
\* the token is not a full match (unless the terminal matches that text
\* itself, as "." does, which matches a blank as it matches any character).

\* the classes of the elements of an expression
RECURSIVE Kinds(_)
Kinds(e) == {e.kind} \cup UNION {Kinds(e.elements[k]) : k \in 1..Len(e.elements)}

TerminalValueIsMatchedText ==
  (Parsed("TerminalRule") /\ _rules[called.name]._value_converter = "text"
     /\ success(result.len))
    => result.value = AnyString(SubSeq(text, 1, result.len))

\* the terminal "test" parsed "test ": four bytes matched, the value is the five of the input
TerminalValueWholeInput ==
  /\ ParsedText("Literal", "TERM", test \o SP)
  /\ result.len = Len(test)
  /\ result.value = AnyString(test \o SP)

\* ------------------------------------------------------------------------
\* C11: for a DataType rule with the default converter, whenever parse is a
\* full match the value is the concatenation, in input order, of the texts of
\* the non-hidden leaves of the CST, and that is the input with every hidden
\* or ignored token removed.

\* the input without the bytes at which a hidden or ignored terminal matches
WithoutHidden == Cat([k \in 1..Len(text) |-> IF HiddenAt(k - 1) THEN <<>> ELSE <<text[k]>>])

DefaultValueWitness ==
  /\ ParsedText("Many", "RULE", Cat(<<SP, test, SP, SP, test, SP, SP, SP>>))
  /\ result.ret
  /\ result.value = AnyString(test \o test)

\* ------------------------------------------------------------------------
\* C12: an Ignored terminal never produces a CST node: not when the hidden
\* skipper skips it, and not when it is called in rule mode from another
\* expression, where its match is consumed and no child is appended.

\* the rules that made the nodes of a child list, at any depth
RECURSIVE GrammarSources(_)
GrammarSources(content) ==
  UNION {{content[k].grammarSource} \cup GrammarSources(content[k].content) :
         k \in 1..Len(content)}

\* the call made was parse_rule on a call of an Ignored terminal that matches the input
CalledIgnored ==
  /\ pc \in {"parse_rule", "abort"}
  /\ called.src # NullSource
  /\ ElementAt(called.src).kind \in {"RuleCall", "RuleWrapper"}
  /\ IsHiddenTerminal(ElementAt(called.src).rule)
  /\ ignored(_rules[ElementAt(called.src).rule])
  /\ success(Rule_parse_terminal(ElementAt(called.src).rule, 0))

IgnoredMakesNoNode ==
  /\ pc = "parse" =>
       \A name \in DOMAIN _rules :
         (IsHiddenTerminal(name) /\ ignored(_rules[name])) =>
            RuleSource(name) \notin GrammarSources(result.root_node.content)
  /\ pc = "parse_rule" =>
       \A name \in DOMAIN _rules :
         (IsHiddenTerminal(name) /\ ignored(_rules[name])) =>
            RuleSource(name) \notin GrammarSources(result.content)
  /\ CalledIgnored =>
       /\ pc = "parse_rule"
       /\ success(result.len)
       /\ result.len >= Rule_parse_terminal(ElementAt(called.src).rule, 0)
       /\ result.content = called.content

\* call("WS") matched " A" in rule mode in a build with NDEBUG: the parent got
\* a child made by WS, and the child is not hidden
IgnoredNodeAppended ==
  /\ CalledIgnored
  /\ pc = "parse_rule"
  /\ _rules = Rules("IgnoredCall")
  /\ text = SP \o A
  /\ called.content = <<>>
  /\ result.len = 1
  /\ Len(result.content) = 1
  /\ result.content[1].grammarSource = RuleSource("WS")
  /\ ~result.content[1].hidden
  /\ TextOf(result.content[1]) = SP

\* the same call in a build without NDEBUG: the process is aborted at the assert
IgnoredCallAborted ==
  /\ CalledIgnored
  /\ pc = "abort"
  /\ result.failed = {"_kind != TerminalRule::Kind::Ignored"}

\* Parser::parse never reaches the assert: the skipper has consumed every
\* match of an Ignored terminal before a call of it is tried
ParseSkipsIgnoredFirst ==
  (pc = "parse" \/ (pc = "abort" /\ called.name # "")) => /\ pc = "parse"
                                                         /\ result.failed = {}

\* ------------------------------------------------------------------------
\* C13: in rule mode the hidden tokens are skipped at the start of a parse
\* and after every successful Literal, CharactersRanges, AnyCharacter and
\* called Terminal rule, and their length is part of the count returned: the
\* len of a Parser or DataType rule is the leading hidden bytes plus the
\* bytes of the body with all hidden bytes that follow its tokens, and
\* "  test  " against "test" with ignored white space is a full match, len 8.

\* the number of bytes from pos on at each of which a hidden terminal matches
HiddenRun(pos) ==
  CHOOSE n \in 0..(Len(text) - pos) :
    /\ \A m \in 0..(n - 1) : HiddenAt(pos + m)
    /\ ~HiddenAt(pos + n)

\* the length of the token the primitive at src matches at the start of the input
TokenLen(src) ==
  IF ElementAt(src).kind \in {"RuleCall", "RuleWrapper"}
  THEN Rule_parse_terminal(ElementAt(src).rule, 0)
  ELSE parse_terminal(ElementAt(src), 0)

\* the call made was parse_rule on a primitive that produces a token
MatchedToken ==
  /\ pc = "parse_rule"
  /\ \/ ElementAt(called.src).kind \in {"Literal", "CharactersRanges", "AnyCharacter"}
     \/ /\ ElementAt(called.src).kind \in {"RuleCall", "RuleWrapper"}
        /\ _rules[ElementAt(called.src).rule].kind = "TerminalRule"
  /\ success(result.len)

HiddenSkippedAndCounted ==
  /\ MatchedToken =>
       /\ result.len = TokenLen(called.src) + HiddenRun(TokenLen(called.src))
       /\ Len(result.content) > Len(called.content)
       /\ TextOf(result.content[Len(called.content) + 1]) = SubSeq(text, 1, TokenLen(called.src))
       /\ \A k \in (Len(called.content) + 2)..Len(result.content) :
            /\ result.content[k].hidden
            /\ result.content[k].text.off >= TokenLen(called.src)
            /\ result.content[k].text.off + result.content[k].text.len <= result.len
  /\ (Parsed("ParserRule") \/ Parsed("DataTypeRule")) =>
       LET body == Rule_parse_rule(called.name, HiddenRun(0), Fresh(<<>>)).len IN
         success(body) => /\ result.len = HiddenRun(0) + body
                          /\ ~HiddenAt(result.len)
  /\ ParsedText("Literal", "RULE", Cat(<<SP, SP, test, SP, SP>>)) =>
       result.ret /\ result.len = 8

\* "." matched the two bytes of an e with an acute accent and the blank after it
HiddenAfterAnyCharacter ==
  /\ MatchedToken
  /\ ElementAt(called.src).kind = "AnyCharacter"
  /\ text = <<195, 169, 32>>
  /\ result.len = 3

\* "test" parsed "  test  ": two hidden bytes, the token, two hidden bytes
LeadingAndTrailingHidden ==
  /\ ParsedText("Literal", "RULE", Cat(<<SP, SP, test, SP, SP>>))
  /\ HiddenRun(0) = 2
  /\ HiddenRun(6) = 2
  /\ result.ret
  /\ result.len = 8

\* ------------------------------------------------------------------------
\* C14: a call(name) created before the rule `name` is registered or given
\* its body behaves at parse time exactly like the rule bound to the name
\* when the parse starts, so that mutually recursive rules parse correctly
\* whatever the order in which the calls and the rules were created.

\* the input from pos on without its leading blanks
RECURSIVE Blanks(_)
Blanks(pos) == IF pos < Len(text) /\ text[pos + 1] \in s.lookup THEN Blanks(pos + 1) ELSE pos

\* The language of Value: "A", or "(" Value* ")", blanks between the tokens.
\* ValueEnd(pos) is where the Value that starts at pos ends, blanks after it
\* included, or -1; ItemsEnd(pos) the same for Value* ")".
RECURSIVE ValueEnd(_)

RECURSIVE ItemsEnd(_)

ValueEnd(pos) ==
  IF pos >= Len(text) THEN -1
  ELSE IF text[pos + 1] = 40 THEN ItemsEnd(Blanks(pos + 1))
  ELSE IF text[pos + 1] = 65 /\ (pos + 1 = Len(text) \/ ~isword(text[pos + 2]))
       THEN Blanks(pos + 1)
  ELSE -1

ItemsEnd(pos) ==
  IF pos >= Len(text) THEN -1
  ELSE IF text[pos + 1] = 41 THEN Blanks(pos + 1)
  ELSE IF ValueEnd(pos) = -1 THEN -1
  ELSE ItemsEnd(ValueEnd(pos))

\* the result of a call without the record kept of it
Visible(r) == [len |-> r.len, content |-> Unnumbered(r.content)]

LateBinding ==
  /\ MatchedRule("RuleCall") =>
       Visible(result) =
         Visible(Rule_parse_rule(ElementAt(called.src).rule, 0, Fresh(called.content)))
  /\ MatchedTerminal("RuleCall") =>
       result.len = Rule_parse_terminal(ElementAt(called.src).rule, 0)
  /\ (pc = "parse" /\ called.name = "Value") => (result.ret <=> ValueEnd(Blanks(0)) = Len(text))
  /\ pc = "abort" => result.failed # {"_rule && \"Call of an undefined rule.\""}

\* "((A)A)" parsed by Value, whose call("Array") was created when the map had no Array
CalledBeforeRegistered ==
  /\ ParsedText("ValueFirst", "Value", Cat(<<<<40>>, <<40>>, A, <<41>>, A, <<41>>>>))
  /\ ElementAt(Source("Value", <<1>>)).kind = "RuleCall"
  /\ ElementAt(Source("Value", <<1>>)).bound = "nullptr"
  /\ ElementAt(Source("Array", <<2, 1>>)).bound = "ParserRule"
  /\ result.ret
  /\ Attempts(Source("Value", <<1>>), 1) = 1

\* the same input parsed when Array was constructed first
CalledBeforeRegisteredOtherOrder ==
  /\ ParsedText("ArrayFirst", "Value", Cat(<<<<40>>, <<40>>, A, <<41>>, A, <<41>>>>))
  /\ ElementAt(Source("Value", <<1>>)).bound = "ParserRule"
  /\ ElementAt(Source("Array", <<2, 1>>)).bound = "nullptr"
  /\ result.ret

\* ------------------------------------------------------------------------
\* C15: for any interleaving of concurrent get() calls on one Reference, the
\* resolver is never executed by two threads at the same time, at most one
\* invocation of the resolver ever returns a target, no invocation of the
\* resolver starts after the resolved flag has been published, and every
\* get() that returns after the publication returns that same target.
\* A get() returns at its `return ref`: that statement fixes the value, and
\* it is executed before the lock is released.  (The caller of a get() whose
\* own invocation of the resolver returned no value receives null even if
\* another thread publishes a target between the release of the lock and
\* the moment the caller has the value.)

\* the threads whose call of get() is executing the resolver
Resolving == {t \in Threads : threads[t].pc = "resolve"}

\* the threads whose call of get() has executed its `return ref`
Returning == {t \in Threads : threads[t].pc \in {"unlock", "return"}}

ResolvesAtMostOnce ==
  /\ Cardinality(Resolving) <= 1
  /\ Len(reference.succeeded) <= 1
  /\ Resolving # {} => ~reference.resolved
  /\ reference.resolved => /\ Len(reference.succeeded) = 1
                           /\ reference.ref = reference.succeeded[1]
  /\ \A t \in Returning : threads[t].seen => threads[t].ret = reference.succeeded[1]

\* two calls started before the publication; one resolved, the other one
\* found the flag set under the lock and returns the target without resolving
ContendedGetReturnsTarget ==
  \E t1, t2 \in Threads :
    /\ t1 # t2
    /\ threads[t1].invoked = "value"
    /\ threads[t2].pc = "return"
    /\ ~threads[t2].published
    /\ threads[t2].invoked = ""
    /\ threads[t2].seen
    /\ threads[t2].ret = reference.ref
    /\ threads[t2].ret \in Targets

\* ------------------------------------------------------------------------
\* C16: when the resolver returns no value, get() returns null and the
\* Reference stays unresolved; every later get() invokes the resolver again
\* until one invocation succeeds; after that success the Reference is
\* resolved and get() returns the target.
RetriesUntilResolved ==
  /\ reference.succeeded = <<>> => (~reference.resolved /\ reference.ref = "nullptr")
  /\ \A t \in Returning :
       /\ threads[t].invoked = "nullopt" => (threads[t].ret = "nullptr" /\ ~threads[t].seen)
       /\ threads[t].invoked = "" => threads[t].seen
       /\ threads[t].invoked = "value" =>
            /\ reference.resolved
            /\ threads[t].ret = threads[t].value
            /\ threads[t].ret \in Targets
       /\ threads[t].published => threads[t].ret = reference.succeeded[1]

\* one call was answered with no value and returned null; a call that came
\* after it invoked the resolver again, and returns the target it was given
RetrySucceeded ==
  \E t1, t2 \in Threads :
    /\ threads[t1].pc = "idle"
    /\ threads[t1].invoked = "nullopt"
    /\ threads[t1].ret = "nullptr"
    /\ threads[t2].pc = "return"
    /\ threads[t2].invoked = "value"
    /\ threads[t2].ret = reference.ref
    /\ reference.resolved

\* ------------------------------------------------------------------------
\* C17: parse of a Parser rule returns as value an AST node of the rule's
\* type, built from the children of the CST whose action is an assignment.

\* the features assigned by the children of a child list, in order, at any depth
RECURSIVE AssignedFeatures(_)
AssignedFeatures(content) ==
  IF content = <<>> THEN <<>>
  ELSE (IF Head(content).action # NullSource
        THEN <<ElementAt(Head(content).action).feature>> ELSE <<>>)
         \o AssignedFeatures(Head(content).content) \o AssignedFeatures(Tail(content))

\* C17: a full match of a Parser rule returns a value (the AST node)
ParserRuleReturnsAstNode ==
  (Parsed("ParserRule") /\ result.ret) => result.value.has_value

\* "(A ()#)" was fully matched by Node: the CST records the assignment of
\* name, then of children, and the value holds nothing
AssignmentsButNoValue ==
  /\ ParsedText("Node", "Node", Cat(<<<<40>>, A, SP, <<40>>, <<41>>, <<35>>, <<41>>>>))
  /\ result.ret
  /\ AssignedFeatures(result.root_node.content) = <<"name", "children">>
  /\ result.value = NoValue

\* ------------------------------------------------------------------------
\* C18: in terminal mode the twin L.i() of a literal L matches exactly the
\* inputs whose first |L| bytes equal L after ASCII lower-casing of both
\* sides, also when L has no letter (the twin then compares the bytes as
\* they are).

\* the text with its ASCII capital letters replaced by the small ones
Lowered(t) == [k \in 1..Len(t) |-> IF t[k] \in 65..90 THEN t[k] + 32 ELSE t[k]]

\* the literals "Ab" and "@", whose twins the parser Insensitive holds
Twinned == {<<65, 98>>, <<64>>}

CaseInsensitiveTwin ==
  \A L \in Twinned :
    (MatchedTerminal("Literal") /\ ElementAt(called.src) = Literal_i(kw(L))) =>
      LET same == /\ Len(text) >= Len(L)
                  /\ Lowered(SubSeq(text, 1, Len(L))) = Lowered(L)
      IN /\ success(result.len) <=> same
         /\ success(result.len) => result.len = Len(L)

\* the twin of "Ab" matched "aB@", which differs from "Ab" in both letters
TwinMatchedOtherCase ==
  /\ MatchedTerminal("Literal")
  /\ ElementAt(called.src) = Literal_i(kw(<<65, 98>>))
  /\ text = <<97, 66, 64>>
  /\ result.len = 2

\* ------------------------------------------------------------------------
\* C19: a Repetition stops iterating when an iteration of its body succeeds
\* consuming zero bytes, so that a repetition of a nullable body ends.

\* the lengths returned by the parse_rule calls the call made on the body
\* of the Repetition at src, in order
BodyLengths(src) ==
  LET RECURSIVE From(_)
      From(n) ==
        IF n > Len(result.log) THEN <<>>
        ELSE (IF result.log[n].src = Member(src, 1) THEN <<result.log[n].len>> ELSE <<>>)
               \o From(n + 1)
  IN From(1)

\* C19: in rule mode, no iteration of a Repetition follows an iteration that
\* succeeded on zero bytes
StopsAtEmptyIteration ==
  MatchedRule("Repetition") =>
    LET lens == BodyLengths(called.src) IN
    \A n \in 1..Len(lens) : lens[n] = 0 => n = Len(lens)

\* rep<0, 3>(opt("A")) on the empty input: three iterations, each a success
\* on zero bytes, and only max ended them
EmptyIterationsUpToMax ==
  /\ MatchedRule("Repetition")
  /\ ElementAt(called.src) = rep(0, 3, opt(kw(A)))
  /\ text = <<>>
  /\ BodyLengths(called.src) = <<0, 0, 0>>
  /\ result.len = 0

\* ------------------------------------------------------------------------
\* C20: the hidden skipper tries the hidden and ignored terminals in the
\* order of their registration: when two of them match at the current
\* position, the one registered first consumes the input and, unless
\* Ignored, makes the hidden node, whatever the terminals' names.

\* the names of the rules of parser p in the order of their registration
Registered(p) == [k \in 1..Len(Constructor(p)) |-> Constructor(p)[k].name]

\* the hidden and ignored terminals of p that match at pos, in the order of
\* their registration
MatchingHidden(p, pos) ==
  LET Matches(name) == IsHiddenTerminal(name) /\ success(Rule_parse_terminal(name, pos))
  IN SelectSeq(Registered(p), Matches)

\* C20: at the start of the input of a parse in rule mode, where every hidden
\* terminal is tried at position 0, the first registered of those that match
\* is the one that consumes: the first node is its node, or when it is
\* Ignored no node lies in the bytes it matches
FirstRegisteredConsumes ==
  \A p \in ParserNames :
    ((Parsed("ParserRule") \/ Parsed("DataTypeRule")) /\ _rules = Rules(p)
       /\ MatchingHidden(p, 0) # <<>>) =>
      LET first == Head(MatchingHidden(p, 0))
          len == Rule_parse_terminal(first, 0)
          content == result.root_node.content
      IN IF ignored(_rules[first])
         THEN content = <<>> \/ content[1].text.off >= len
         ELSE /\ content # <<>>
              /\ content[1].hidden
              /\ content[1].grammarSource = RuleSource(first)
              /\ content[1].text = [off |-> 0, len |-> len]

\* "##A" parsed by the parser that registers SL_COMMENT = "##" before
\* HASH = "#": HASH, the lower key, made two nodes of one "#" each
LowerKeyConsumes ==
  /\ ParsedText("TwoHidden", "RULE", <<35, 35, 65>>)
  /\ Registered("TwoHidden") = <<"SL_COMMENT", "HASH", "RULE">>
  /\ createContext = <<"HASH", "SL_COMMENT">>
  /\ result.ret
  /\ Len(result.root_node.content) = 3
  /\ \A k \in 1..2 :
       /\ result.root_node.content[k].grammarSource = RuleSource("HASH")
       /\ result.root_node.content[k].text = [off |-> k - 1, len |-> 1]

\* ------------------------------------------------------------------------
\* C21: a hidden or ignored terminal whose body matches zero bytes during
\* the skipping of hidden tokens is rejected by an assertion failure: no
\* hidden match of length 0 is recorded and the skipper does not loop on one.

RECURSIVE SpansNested(_, _, _)
SpansNested(content, lo, hi) ==
  \A k \in 1..Len(content) :
    LET off == content[k].text.off
        end == off + content[k].text.len
    IN /\ lo <= off /\ off <= end /\ end <= hi
       /\ k > 1 => content[k - 1].text.off + content[k - 1].text.len <= off
       /\ SpansNested(content[k].content, off, end)

Terminals == {name \in DOMAIN _rules : _rules[name].kind = "TerminalRule"}

\* C23: a visibility that is not Normal any more stays what it is
VisibilitySetOnce ==
  [][\A name \in Terminals :
       _rules[name]._kind # "Normal" => _rules'[name]._kind = _rules[name]._kind]_vars

\* WS, which the constructor made Ignored, is Hidden, and a parse of " test"
\* was made with it so: the blank is a hidden node of the tree
IgnoredThenHidden ==
  /\ Rules("Literal")["WS"]._kind = "Ignored"
  /\ _rules["WS"]._kind = "Hidden"
  /\ Parsed("DataTypeRule")
  /\ text = SP \o test
  /\ result.ret
  /\ result.root_node.content[1].hidden
  /\ result.root_node.content[1].grammarSource = RuleSource("WS")

\* ------------------------------------------------------------------------
\* C24: AndPredicate and NotPredicate return 0 on success and leave the
\* parent's child list as it was, whether the lookahead succeeds or fails,
\* in both modes; &e succeeds iff e succeeds at the position, !e iff e
\* fails; and so eof = !dot succeeds only at the end of the input.

\* the call made was on a predicate
OnPredicate ==
  /\ pc \in {"parse_rule", "parse_terminal"}
  /\ ElementAt(called.src).kind \in {"AndPredicate", "NotPredicate"}

\* the part of C24 about the result and the parent
PredicateLooksAhead ==
  OnPredicate =>
    LET e == ElementAt(called.src)
        inner == MemberLen(e, called.src, 1, 0)
    IN /\ result.len \in {0, PARSE_ERROR}
       /\ e.kind = "AndPredicate" => (success(result.len) <=> success(inner))
       /\ e.kind = "NotPredicate" => (success(result.len) <=> fail(inner))
       /\ pc = "parse_rule" => result.content = called.content

\* C24, with its consequence for eof
PredicateAndEof ==
  /\ PredicateLooksAhead
  /\ (OnPredicate /\ ElementAt(called.src) = eof /\ success(result.len)) => text = <<>>

\* eof succeeded in rule mode on an input of one byte, 10101001, which is no
\* lead byte of a codepoint
EofBeforeEnd ==
  /\ MatchedRule("NotPredicate")
  /\ ElementAt(called.src) = eof
  /\ text = <<169>>
  /\ result.len = 0

\* ------------------------------------------------------------------------
\* C25: from >> to matches from, then the shortest run of codepoints that
\* ends where to matches, then to; it consumes through the first occurrence
\* of to after from, never a later one, and fails when to does not occur
\* before the end of the input.

\* the call made was on the from >> to of the parser Until
OnUntil ==
  /\ pc \in {"parse_rule", "parse_terminal"}
  /\ _rules = Rules("Until")
  /\ called.src.rule \in {"RULE", "TERM"}
  /\ called.src.path = <<>>

\* the positions a run of codepoints from pos goes through, in the mode of
\* the call made; dotSrc is the address of the dot
RECURSIVE CodepointRun(_, _)
CodepointRun(dotSrc, pos) ==
  {pos} \cup (IF success(ElementLen(dotSrc, pos))
              THEN CodepointRun(dotSrc, pos + ElementLen(dotSrc, pos)) ELSE {})

\* t occurs in the input at pos, byte for byte
OccursAt(t, pos) == pos + Len(t) <= Len(text) /\ SubSeq(text, pos + 1, pos + Len(t)) = t

UntilFirstOccurrence ==
  OnUntil =>
    LET fromSrc == Member(called.src, 1)
        dotSrc == Member(Member(Member(called.src, 2), 1), 2)
        toSrc == Member(called.src, 3)
        from == ElementLen(fromSrc, 0)
        ends == IF fail(from) THEN {}
                ELSE {q \in CodepointRun(dotSrc, from) : success(ElementLen(toSrc, q))}
        first == CHOOSE q \in ends : \A other \in ends : q <= other
    IN /\ success(result.len) <=> ends # {}
       /\ success(result.len) => result.len = first + ElementLen(toSrc, first)
       \* in terminal mode on an input of ASCII bytes: from is "/*" at 0, and
       \* the match ends with the first "*/" from position 2 on
       /\ (pc = "parse_terminal" /\ \A k \in 1..Len(text) : text[k] < 128) =>
            /\ success(result.len) <=>
                 (OccursAt(<<47, 42>>, 0) /\ \E q \in 2..Len(text) : OccursAt(<<42, 47>>, q))
            /\ success(result.len) =>
                 /\ OccursAt(<<42, 47>>, result.len - 2)
                 /\ \A q \in 2..(result.len - 3) : ~OccursAt(<<42, 47>>, q)

\* "/*A*/*/" in terminal mode: the match ends with the first "*/"
FirstOfTwoEnds ==
  /\ OnUntil
  /\ pc = "parse_terminal"
  /\ text = <<47, 42, 65, 42, 47, 42, 47>>
  /\ result.len = 5

\* ------------------------------------------------------------------------
\* C26: after a successful rule-mode match of an Assignment, exactly one of
\* the children appended to the parent carries the assignment as its action:
\* the first one, the node of the matched literal or called rule; the hidden
\* nodes appended after it carry none; after a failed match no child's
\* action has changed.

\* the children the call made appended to the parent
Appended == SubSeq(result.content, Len(called.content) + 1, Len(result.content))

\* the node was made by a rule, or by a Literal inside the element at src
OfRuleOrLiteralIn(node, src) ==
  \/ \E name \in DOMAIN _rules : node.grammarSource = RuleSource(name)
  \/ /\ node.grammarSource.rule = src.rule
     /\ Len(node.grammarSource.path) > Len(src.path)
     /\ SubSeq(node.grammarSource.path, 1, Len(src.path)) = src.path
     /\ ElementAt(node.grammarSource).kind = "Literal"

OneChildAssigned ==
  MatchedRule("Assignment") =>
    /\ SubSeq(result.content, 1, Len(called.content)) = called.content
    /\ fail(result.len) => Appended = <<>>
    /\ success(result.len) =>
         /\ Appended # <<>>
         /\ Appended[1].action = called.src
         /\ OfRuleOrLiteralIn(Appended[1], called.src)
         /\ \A k \in 2..Len(Appended) :
              Appended[k].hidden /\ Appended[k].action = NullSource

\* assign<&Node::name>("A" | "B") matched "B##": the leaf of "B" carries the
\* assignment, the two hidden nodes after it carry nothing
AssignedLeafThenHidden ==
  /\ MatchedRule("Assignment")
  /\ _rules = Rules("AssignedLiteral")
  /\ text = <<66, 35, 35>>
  /\ result.len = 3
  /\ Len(Appended) = 3
  /\ Appended[1].action = called.src
  /\ Appended[1].grammarSource = Member(Member(called.src, 1), 2)

\* ------------------------------------------------------------------------
\* C27: AnyCharacter consumes one UTF-8 codepoint whose length the lead byte
\* alone decides: 1 byte for 0xxxxxxx, 2 for 110xxxxx when 2 bytes remain,
\* 3 for 1110xxxx when 3 remain, 4 for 11110xxx when 4 remain; it fails on
\* the empty input, on a lead byte 10xxxxxx or 11111xxx and on a truncated
\* sequence; the bytes after the lead byte are not looked at.

\* the length of the sequence a lead byte announces, 0 when it is no lead byte
Announced(b) ==
  CASE b \in 0..127 -> 1
    [] b \in 128..191 -> 0
    [] b \in 192..223 -> 2
    [] b \in 224..239 -> 3
    [] b \in 240..247 -> 4
    [] b \in 248..255 -> 0

\* what the claim says of the input: a function of its first byte and of its length
OneCodepoint ==
  IF text = <<>> \/ Announced(text[1]) = 0 \/ Announced(text[1]) > Len(text)
  THEN PARSE_ERROR
  ELSE Announced(text[1])

LeadByteDecides ==
  /\ MatchedTerminal("AnyCharacter") => result.len = OneCodepoint
  /\ MatchedRule("AnyCharacter") =>
       /\ success(result.len) <=> success(OneCodepoint)
       /\ success(result.len) =>
            /\ Len(result.content) > Len(called.content)
            /\ result.content[Len(called.content) + 1].text = [off |-> 0, len |-> OneCodepoint]

\* dot took the three bytes 11100010 01000001 01000001, the last two of which
\* are no continuation bytes
ContinuationNotInspected ==
  /\ MatchedTerminal("AnyCharacter")
  /\ text = <<226, 65, 65>>
  /\ result.len = 3

\* ------------------------------------------------------------------------
\* C28: an UnorderedGroup of N members ends on every input, in both modes,
\* after at most N + 1 passes over its members, also when a member matches
\* zero bytes: a pass marks one more member as processed or ends the loop,
\* and a processed member is not attempted again.

\* the calls the UnorderedGroup made on its members, in order
MemberCalls ==
  LET RECURSIVE From(_)
      From(n) ==
        IF n > Len(result.log) THEN <<>>
        ELSE (IF \E k \in 1..Len(ElementAt(called.src).elements) :
                   result.log[n].src = Member(called.src, k)
              THEN <<result.log[n]>> ELSE <<>>) \o From(n + 1)
  IN From(1)

\* a pass ends with the first member that matches, or with none: as many
\* passes as members matched, and one more when the group failed
Passes ==
  Cardinality({n \in DOMAIN MemberCalls : success(MemberCalls[n].len)})
    + (IF fail(result.len) THEN 1 ELSE 0)

BoundedPasses ==
  /\ MatchedRule("UnorderedGroup") =>
       LET e == ElementAt(called.src)
           N == Len(e.elements) IN
       /\ Passes <= N + 1
       /\ \A k \in 1..N : AllAttempts(Member(called.src, k)) <= Passes
       /\ \A n, m \in DOMAIN MemberCalls :
            (n < m /\ success(MemberCalls[n].len)) => MemberCalls[m].src # MemberCalls[n].src
       /\ fail(result.len) =>
            \E k \in 1..N : \A n \in DOMAIN MemberCalls :
              MemberCalls[n].src = Member(called.src, k) => fail(MemberCalls[n].len)
  /\ (MatchedRule("UnorderedGroup") \/ MatchedTerminal("UnorderedGroup")) =>
       (_rules = Rules("NullableGroup") =>
          LET e == ElementAt(called.src) IN
          result.len = LowestFirst(e, called.src, 0, 1..Len(e.elements)))

\* "B" & opt("A") on "B": the first pass matched "B", the second matched
\* opt("A") on zero bytes, and there was no third
ZeroByteMemberEnds ==
  /\ MatchedRule("UnorderedGroup")
  /\ _rules = Rules("NullableGroup")
  /\ text = B
  /\ result.len = 1
  /\ Len(MemberCalls) = 2
  /\ MemberCalls[2] = [src |-> Member(called.src, 2), pos |-> 1, len |-> 0]

\* ------------------------------------------------------------------------
\* C29: when the body of a ParserRule or DataTypeRule fails at top level
\* after i bytes of leading hidden text, parse returns ret = false, and len,
\* computed as i + PARSE_ERROR on std::size_t, is PARSE_ERROR for i = 0 and
\* i - 1 for i > 0, which is never the length of the text.

\* the call parse made on the rule itself, the last one to return
TopLevelCall == result.log[Len(result.log)]

\* parse returned after the rule's parse_rule failed at top level
BodyFailed ==
  /\ Parsed("ParserRule") \/ Parsed("DataTypeRule")
  /\ result.log # <<>>
  /\ TopLevelCall.src = RuleSource(called.name)
  /\ fail(TopLevelCall.len)

FailureNeverFullMatch ==
  BodyFailed =>
    LET i == TopLevelCall.pos IN
    /\ i \in 0..Len(text)
    /\ ~result.ret
    /\ result.len = (IF i = 0 THEN PARSE_ERROR ELSE i - 1)
    /\ result.len # Len(text)

\* "test" is missing behind two skipped spaces: the body failed at 2 and len is 1
FailedAfterHidden ==
  /\ BodyFailed
  /\ _rules = Rules("Literal")
  /\ text = SP \o SP
  /\ TopLevelCall.pos = 2
  /\ result.len = 1
  /\ ~result.ret

\* ------------------------------------------------------------------------
\* C30: assigning a text to a Reference that is resolved does not reset the
\* resolved flag: every later get() returns the target resolved before and
\* the resolver is not invoked with the new text; a text assigned before the
\* resolution is the one the next invocation of the resolver receives.

\* thread t starts an invocation of the resolver in this step
Invokes(t) == threads[t].pc = "check" /\ threads'[t].pc = "resolve"

\* thread t returns from a call of get() in this step
ReturnsFromGet(t) == threads[t].pc = "return" /\ threads'[t].pc = "idle"

AssignKeepsResolution ==
  [][/\ reference.resolved =>
          /\ reference'.resolved
          /\ reference'.ref = reference.ref
          /\ reference.ref = reference.succeeded[1]
          /\ \A t \in Threads :
               /\ ~Invokes(t)
               /\ threads'[t].pc # "resolve"
               /\ threads'[t].received = threads[t].received
               /\ (ReturnsFromGet(t) /\ threads[t].published) =>
                    /\ threads[t].ret = reference.ref
                    /\ threads[t].invoked = ""
     /\ \A t \in Threads : Invokes(t) => threads'[t].received = reference._refText
    ]_vars

\* "a" was assigned and resolved to node1, then "b" was assigned: a call of
\* get() made after that returned node1 without invoking the resolver
StaleAfterAssign ==
  /\ reference.resolved
  /\ reference._refText = "b"
  /\ reference.succeeded = <<"node1">>
  /\ threads[1].received = "a"
  /\ threads[1].invoked = "value"
  /\ threads[2].pc = "idle"
  /\ threads[2].gets = 1
  /\ threads[2].called_with = "b"
  /\ threads[2].published
  /\ threads[2].invoked = ""
  /\ threads[2].ret = "node1"

====
